---- MODULE Spec2Model ----
(***************************************************************************)
(* A model of the R1CS synthesis core of zexe: the ConstraintSystem arena  *)
(* (r1cs-core/src/constraint_system.rs), its shared handle                 *)
(* ConstraintSystemRef, and the Namespace scope object.                    *)
(*                                                                         *)
(* Every method of the arena is a pure operator from the arena (a record   *)
(* with the fields of the Rust struct) and the call's arguments to the     *)
(* arena after the call and the returned value.  The actions apply these   *)
(* operators to the one arena `cs` and record the call in `last`.          *)
(***************************************************************************)
EXTENDS Naturals, Integers, Sequences, FiniteSets, TLC

VARIABLES
    cs,       \* the ConstraintSystem<F> behind the handle ConstraintSystemRef::CS
    scopes,   \* the live Namespace<F> objects, innermost last (Rust drops LIFO)
    last,     \* the most recent call: its name, handle, arguments, returned value
    supplied, \* the pairs <<variable, value>> of the allocations that succeeded
              \* after calling their thunk
    handed,   \* the variables the calls returned to the caller: those of the
              \* arena behind the handle (.cs) and those of its clone (.copy)
    borrows,  \* the borrow state of the RefCell behind the handle: the numbers
              \* of outstanding Ref and RefMut guards
    frames,   \* the allocations whose thunk is running, innermost last
    cubic,    \* a call of CubicExtVar::mul_equals: the values of its arguments
              \* and the constraints it has added
    curve,    \* operations on twisted Edwards AffineVar: the curve, the values
              \* of the points, the last result and the constraints added
    copy      \* a clone of the ConstraintSystem value, <<>> before the clone

vars == <<cs, scopes, last, supplied, handed, borrows, frames, cubic, curve, copy>>

\* The borrow state and the running calls.
borrowing == <<borrows, frames>>

\* The state outside the arena behind the handle.
gadgets == <<cubic, curve, copy>>

----------------------------------------------------------------------------
(* Bounds of the model.                                                    *)

MaxInstance == 1
MaxWitness == 3
MaxConstraints == 2
MaxLcs == 2
MaxReaders == 2

----------------------------------------------------------------------------
(* The field F.  The arena is generic in F: Field; the model instantiates  *)
(* it with the prime field of P elements.                                  *)

P == 17

F == 0 .. (P - 1)

FAdd(x, y) == (x + y) % P

FMul(x, y) == (x * y) % P

\* The values the thunks of instance and of witness variables may produce.
InstanceValues == {3}

WitnessValues == {3, 5, 15}

----------------------------------------------------------------------------
(* Option<T>, Result<T, SynthesisError>, and a panic.                      *)

None == <<"None">>

Some(v) == <<"Some", v>>

IsSome(o) == o[1] = "Some"

Ok(v) == <<"Ok", v>>

Err(e) == <<"Err", e>>

IsOk(r) == r[1] = "Ok"

Panic(msg) == <<"Panic", msg>>

IsPanic(r) == r[1] = "Panic"

\* SynthesisError kinds used by this file.
AssignmentMissing == "AssignmentMissing"

MissingCS == "MissingCS"

----------------------------------------------------------------------------
(* Variable: One, Zero, Instance(i), Witness(i), SymbolicLc(LcIndex(k)).   *)

One == <<"One", 0>>

Zero == <<"Zero", 0>>

Instance(i) == <<"Instance", i>>

Witness(i) == <<"Witness", i>>

SymbolicLc(k) == <<"SymbolicLc", k>>

is_lc(var) == var[1] = "SymbolicLc"

get_lc_index(var) == IF is_lc(var) THEN Some(var[2]) ELSE None

\* Variable::get_index_unchecked(&self): called by make_row with no argument,
\* so the index depends on the variable alone.
get_index_unchecked(var) ==
    CASE var[1] = "One" -> Some(0)
      [] var[1] = "Instance" -> Some(var[2])
      [] var[1] = "Witness" -> Some(var[2])
      [] OTHER -> None

----------------------------------------------------------------------------
(* Mode.                                                                   *)

Setup == <<"Setup">>

Prove(construct_matrices) == <<"Prove", construct_matrices>>

Modes == {Setup, Prove(TRUE), Prove(FALSE)}

----------------------------------------------------------------------------
(* Strings: format!("{}", n) and [..].join("/").                           *)

Digits == <<"0", "1", "2", "3", "4", "5", "6", "7", "8", "9">>

RECURSIVE to_string(_)
to_string(n) ==
    IF n < 10 THEN Digits[n + 1]
    ELSE to_string(n \div 10) \o Digits[(n % 10) + 1]

RECURSIVE join(_, _)
join(strs, sep) ==
    IF Len(strs) = 0 THEN ""
    ELSE IF Len(strs) = 1 THEN strs[1]
    ELSE strs[1] \o sep \o join(Tail(strs), sep)

----------------------------------------------------------------------------
(* ConstraintSystem<F>.                                                    *)

\* ConstraintSystem::new()
ConstraintSystem_new ==
    [ mode |-> Prove(TRUE),
      num_instance_variables |-> 1,
      num_witness_variables |-> 0,
      num_constraints |-> 0,
      num_linear_combinations |-> 0,
      instance_assignment |-> <<1>>,
      witness_assignment |-> <<>>,
      lc_map |-> <<>>,
      namespace |-> <<>>,
      current_namespace_path |-> "",
      constraint_names |-> <<>>,
      a_constraints |-> <<>>,
      b_constraints |-> <<>>,
      c_constraints |-> <<>>,
      lc_assignment_cache |-> <<>> ]

is_in_setup_mode(c) == c.mode = Setup

should_construct_matrices(c) ==
    IF c.mode = Setup THEN TRUE ELSE c.mode[2]

compute_full_name(c, name) == join(<<c.current_namespace_path, name>>, "/")

\* A variant of new_input_variable that reads the index after the increment.
new_input_variable_index_after(c, f) ==
    LET c1 == [c EXCEPT !.num_instance_variables = @ + 1]
        index == c1.num_instance_variables
    IN  IF ~is_in_setup_mode(c1)
        THEN IF IsOk(f)
             THEN [ cs |-> [c1 EXCEPT !.instance_assignment = Append(@, f[2])],
                    ret |-> Ok(Instance(index)), called_f |-> TRUE ]
             ELSE [ cs |-> c1, ret |-> f, called_f |-> TRUE ]
        ELSE [ cs |-> c1, ret |-> Ok(Instance(index)), called_f |-> FALSE ]

\* new_input_variable(f): `f` is the outcome the thunk has when it is called,
\* Ok(value) or Err(error).  `called_f` records whether the thunk was called.
new_input_variable(c, f) ==
    LET index == c.num_instance_variables
        c1 == [c EXCEPT !.num_instance_variables = index + 1]
    IN  IF ~is_in_setup_mode(c1)
        THEN IF IsOk(f)
             THEN [ cs |-> [c1 EXCEPT !.instance_assignment = Append(@, f[2])],
                    ret |-> Ok(Instance(index)), called_f |-> TRUE ]
             ELSE [ cs |-> c1, ret |-> f, called_f |-> TRUE ]
        ELSE [ cs |-> c1, ret |-> Ok(Instance(index)), called_f |-> FALSE ]

new_witness_variable(c, f) ==
    LET index == c.num_witness_variables
        c1 == [c EXCEPT !.num_witness_variables = index + 1]
    IN  IF ~is_in_setup_mode(c1)
        THEN IF IsOk(f)
             THEN [ cs |-> [c1 EXCEPT !.witness_assignment = Append(@, f[2])],
                    ret |-> Ok(Witness(index)), called_f |-> TRUE ]
             ELSE [ cs |-> c1, ret |-> f, called_f |-> TRUE ]
        ELSE [ cs |-> c1, ret |-> Ok(Witness(index)), called_f |-> FALSE ]

\* lc_map is a BTreeMap<LcIndex, LinearCombination>: a function on its keys.
new_lc(c, lc) ==
    LET index == c.num_linear_combinations
    IN  [ cs |-> [c EXCEPT !.lc_map = (index :> lc) @@ @,
                           !.num_linear_combinations = index + 1],
          ret |-> Ok(SymbolicLc(index)) ]

\* A variant of enforce_named_constraint that records the rows in every mode.
enforce_named_constraint_every_mode(c, name, a, b, c_lc) ==
    LET ra == new_lc(c, a)
        rb == new_lc(ra.cs, b)
        rc == new_lc(rb.cs, c_lc)
        c1 == [rc.cs EXCEPT
                 !.a_constraints = Append(@, get_lc_index(ra.ret[2])[2]),
                 !.b_constraints = Append(@, get_lc_index(rb.ret[2])[2]),
                 !.c_constraints = Append(@, get_lc_index(rc.ret[2])[2])]
        c2 == [c1 EXCEPT !.num_constraints = @ + 1]
    IN  [ cs |-> [c2 EXCEPT !.constraint_names =
                                Append(@, compute_full_name(c2, name))],
          ret |-> Ok(<<>>) ]

enforce_named_constraint(c, name, a, b, c_lc) ==
    LET ra == new_lc(c, a)
        rb == new_lc(ra.cs, b)
        rc == new_lc(rb.cs, c_lc)
        c1 == IF should_construct_matrices(c)
              THEN [rc.cs EXCEPT
                      !.a_constraints = Append(@, get_lc_index(ra.ret[2])[2]),
                      !.b_constraints = Append(@, get_lc_index(rb.ret[2])[2]),
                      !.c_constraints = Append(@, get_lc_index(rc.ret[2])[2])]
              ELSE c
        c2 == [c1 EXCEPT !.num_constraints = @ + 1]
    IN  [ cs |-> [c2 EXCEPT !.constraint_names =
                                Append(@, compute_full_name(c2, name))],
          ret |-> Ok(<<>>) ]

enforce_constraint(c, a, b, c_lc) ==
    enforce_named_constraint(c, to_string(c.num_constraints), a, b, c_lc)

enter_namespace(c, name) ==
    LET ns == Append(c.namespace, name)
    IN  [c EXCEPT !.namespace = ns, !.current_namespace_path = join(ns, "/")]

\* A variant of leave_namespace that does not recompute the path.
leave_namespace_stale_path(c) ==
    LET ns == IF Len(c.namespace) = 0 THEN c.namespace
              ELSE SubSeq(c.namespace, 1, Len(c.namespace) - 1)
    IN  [c EXCEPT !.namespace = ns]

\* Vec::pop on an empty vector does nothing.
leave_namespace(c) ==
    LET ns == IF Len(c.namespace) = 0 THEN c.namespace
              ELSE SubSeq(c.namespace, 1, Len(c.namespace) - 1)
    IN  [c EXCEPT !.namespace = ns, !.current_namespace_path = join(ns, "/")]

----------------------------------------------------------------------------
(* LinearCombination<F>: a sequence of <<coeff, var>> terms.               *)

\* Variant order of Variable, used by compactify's sort.
VariantRank(var) ==
    CASE var[1] = "One" -> 0
      [] var[1] = "Zero" -> 1
      [] var[1] = "Instance" -> 2
      [] var[1] = "Witness" -> 3
      [] OTHER -> 4

VarLess(u, v) ==
    \/ VariantRank(u) < VariantRank(v)
    \/ VariantRank(u) = VariantRank(v) /\ u[2] < v[2]

\* `lc * coeff`: every coefficient is multiplied by coeff.
lc_scale(lc, coeff) == [i \in DOMAIN lc |-> <<FMul(lc[i][1], coeff), lc[i][2]>>]

RECURSIVE SortedVars(_)
SortedVars(S) ==
    IF S = {} THEN <<>>
    ELSE LET m == CHOOSE u \in S : \A v \in S : u = v \/ VarLess(u, v)
         IN  <<m>> \o SortedVars(S \ {m})

RECURSIVE CoeffSum(_, _, _)
CoeffSum(lc, var, i) ==
    IF i > Len(lc) THEN 0
    ELSE FAdd(IF lc[i][2] = var THEN lc[i][1] ELSE 0, CoeffSum(lc, var, i + 1))

\* compactify: sort by variable, sum the coefficients of each variable, drop
\* the terms whose coefficient is zero.
compactify(lc) ==
    LET vs == SortedVars({lc[i][2] : i \in DOMAIN lc})
        summed == [j \in DOMAIN vs |-> <<CoeffSum(lc, vs[j], 1), vs[j]>>]
    IN  SelectSeq(summed, LAMBDA t : t[1] # 0)

----------------------------------------------------------------------------
(* Evaluation.  eval_lc and assigned_value write lc_assignment_cache, so   *)
(* both return the arena after the call together with the value.           *)

RECURSIVE eval_lc(_, _), eval_terms(_, _, _, _), assigned_value(_, _)

assigned_value(c, v) ==
    CASE v[1] = "One" -> [cs |-> c, ret |-> Some(1)]
      [] v[1] = "Zero" -> [cs |-> c, ret |-> Some(0)]
      [] v[1] = "Witness" ->
            [cs |-> c,
             ret |-> IF v[2] < Len(c.witness_assignment)
                     THEN Some(c.witness_assignment[v[2] + 1]) ELSE None]
      [] v[1] = "Instance" ->
            [cs |-> c,
             ret |-> IF v[2] < Len(c.instance_assignment)
                     THEN Some(c.instance_assignment[v[2] + 1]) ELSE None]
      [] OTHER ->
            IF v[2] \in DOMAIN c.lc_assignment_cache
            THEN [cs |-> c, ret |-> Some(c.lc_assignment_cache[v[2]])]
            ELSE LET r == eval_lc(c, v[2])
                 IN  IF IsSome(r.ret)
                     THEN [cs |-> [r.cs EXCEPT !.lc_assignment_cache =
                                                  (v[2] :> r.ret[2]) @@ @],
                           ret |-> r.ret]
                     ELSE r

\* The loop of eval_lc from term i on, with the accumulator acc.
eval_terms(c, lc, i, acc) ==
    IF i > Len(lc) THEN [cs |-> c, ret |-> Some(acc)]
    ELSE LET r == assigned_value(c, lc[i][2])
         IN  IF IsSome(r.ret)
             THEN eval_terms(r.cs, lc, i + 1, FAdd(acc, FMul(lc[i][1], r.ret[2])))
             ELSE r

eval_lc(c, index) ==
    IF index \in DOMAIN c.lc_map
    THEN eval_terms(c, c.lc_map[index], 1, 0)
    ELSE [cs |-> c, ret |-> None]

\* The loop of which_is_unsatisfied from constraint i (0-based) on.
RECURSIVE which_is_unsatisfied_from(_, _)
which_is_unsatisfied_from(c, i) ==
    IF i >= c.num_constraints THEN [cs |-> c, ret |-> None]
    ELSE IF i >= Len(c.a_constraints)
         THEN [cs |-> c, ret |-> Panic("index out of bounds")]
    ELSE LET a == eval_lc(c, c.a_constraints[i + 1])
         IN  IF ~IsSome(a.ret) THEN a
    ELSE IF i >= Len(a.cs.b_constraints)
         THEN [cs |-> a.cs, ret |-> Panic("index out of bounds")]
    ELSE LET b == eval_lc(a.cs, a.cs.b_constraints[i + 1])
         IN  IF ~IsSome(b.ret) THEN b
    ELSE IF i >= Len(b.cs.c_constraints)
         THEN [cs |-> b.cs, ret |-> Panic("index out of bounds")]
    ELSE LET c_val == eval_lc(b.cs, b.cs.c_constraints[i + 1])
         IN  IF ~IsSome(c_val.ret) THEN c_val
    ELSE IF FMul(a.ret[2], b.ret[2]) # c_val.ret[2]
         THEN [cs |-> c_val.cs, ret |-> Some(c_val.cs.constraint_names[i + 1])]
    ELSE which_is_unsatisfied_from(c_val.cs, i + 1)

which_is_unsatisfied(c) ==
    IF is_in_setup_mode(c) THEN [cs |-> c, ret |-> None]
    ELSE which_is_unsatisfied_from(c, 0)

is_satisfied(c) ==
    IF is_in_setup_mode(c) THEN [cs |-> c, ret |-> None]
    ELSE LET w == which_is_unsatisfied(c)
         IN  IF IsPanic(w.ret) THEN w
             ELSE [cs |-> w.cs, ret |-> Some(w.ret = None)]

----------------------------------------------------------------------------
(* Matrices.  An operator that may panic returns Ok(value) or Panic(msg).  *)

\* make_row: the terms with a non-zero coefficient, each as <<coeff, column>>;
\* expect("no symbolic LCs") panics on a term that has no index.
make_row(l) ==
    LET kept == SelectSeq(l, LAMBDA t : t[1] # 0)
    IN  IF \E i \in DOMAIN kept : get_index_unchecked(kept[i][2]) = None
        THEN Panic("no symbolic LCs")
        ELSE Ok([i \in DOMAIN kept |->
                    <<kept[i][1], get_index_unchecked(kept[i][2])[2]>>])

\* The rows of one matrix:
\* indices.iter().map(|index| make_row(lc_map.get(index).unwrap())).collect()
make_rows(c, indices) ==
    IF \E i \in DOMAIN indices : indices[i] \notin DOMAIN c.lc_map
    THEN Panic("unwrap on None")
    ELSE IF \E i \in DOMAIN indices : IsPanic(make_row(c.lc_map[indices[i]]))
    THEN Panic("no symbolic LCs")
    ELSE Ok([i \in DOMAIN indices |-> make_row(c.lc_map[indices[i]])[2]])

RECURSIVE num_non_zero(_)
num_non_zero(rows) ==
    IF Len(rows) = 0 THEN 0 ELSE Len(rows[1]) + num_non_zero(Tail(rows))

\* to_matrices: Some(ConstraintMatrices), None, or a panic.
to_matrices(c) ==
    IF c.mode = Prove(FALSE)
    THEN LET a == make_rows(c, c.a_constraints)
             b == make_rows(c, c.b_constraints)
             c_rows == make_rows(c, c.c_constraints)
         IN  IF IsPanic(a) THEN a
             ELSE IF IsPanic(b) THEN b
             ELSE IF IsPanic(c_rows) THEN c_rows
             ELSE Some([ num_instance_variables |-> c.num_instance_variables,
                         num_witness_variables |-> c.num_witness_variables,
                         num_constraints |-> c.num_constraints,
                         a_num_non_zero |-> num_non_zero(a[2]),
                         b_num_non_zero |-> num_non_zero(b[2]),
                         c_num_non_zero |-> num_non_zero(c_rows[2]),
                         a |-> a[2], b |-> b[2], c |-> c_rows[2] ])
    ELSE None

----------------------------------------------------------------------------
(* Inlining.                                                               *)

\* A variant of inline_terms that keeps the SymbolicLc term it substitutes.
RECURSIVE inline_terms_keeping_reference(_, _, _)
inline_terms_keeping_reference(inlined_lcs, lc, i) ==
    IF i > Len(lc) THEN Ok(<<>>)
    ELSE LET coeff == lc[i][1]
             var == lc[i][2]
             rest == inline_terms_keeping_reference(inlined_lcs, lc, i + 1)
         IN  IF is_lc(var) /\ var[2] \notin DOMAIN inlined_lcs
             THEN Panic("should be inlined")
             ELSE IF IsPanic(rest) THEN rest
             ELSE IF is_lc(var)
             THEN Ok(<<lc[i]>> \o lc_scale(inlined_lcs[var[2]], coeff) \o rest[2])
             ELSE Ok(<<lc[i]>> \o rest[2])

\* The inner loop of inline_all_lcs from term i on: every SymbolicLc term is
\* replaced by the scaled LC of `inlined_lcs`, every other term is copied;
\* expect("should be inlined") panics on a reference that is not yet there.
RECURSIVE inline_terms(_, _, _)
inline_terms(inlined_lcs, lc, i) ==
    IF i > Len(lc) THEN Ok(<<>>)
    ELSE LET coeff == lc[i][1]
             var == lc[i][2]
             rest == inline_terms(inlined_lcs, lc, i + 1)
         IN  IF is_lc(var) /\ var[2] \notin DOMAIN inlined_lcs
             THEN Panic("should be inlined")
             ELSE IF IsPanic(rest) THEN rest
             ELSE IF is_lc(var)
             THEN Ok(lc_scale(inlined_lcs[var[2]], coeff) \o rest[2])
             ELSE Ok(<<lc[i]>> \o rest[2])

\* A variant of inline_from that does not compactify.
RECURSIVE inline_from_uncompacted(_, _, _)
inline_from_uncompacted(c, inlined_lcs, k) ==
    LET keys == {j \in DOMAIN c.lc_map : j >= k}
    IN  IF keys = {} THEN Ok(inlined_lcs)
        ELSE LET index == CHOOSE j \in keys : \A i \in keys : j <= i
                 inlined_lc == inline_terms(inlined_lcs, c.lc_map[index], 1)
             IN  IF IsPanic(inlined_lc) THEN inlined_lc
                 ELSE inline_from_uncompacted(
                          c, (index :> inlined_lc[2]) @@ inlined_lcs, index + 1)

\* The outer loop of inline_all_lcs, `for (&index, lc) in &self.lc_map`, over
\* the keys of lc_map that are >= k: a BTreeMap is visited in key order,
\* every key once, whether or not the keys are consecutive.
RECURSIVE inline_from(_, _, _)
inline_from(c, inlined_lcs, k) ==
    LET keys == {j \in DOMAIN c.lc_map : j >= k}
    IN  IF keys = {} THEN Ok(inlined_lcs)
        ELSE LET index == CHOOSE j \in keys : \A i \in keys : j <= i
                 inlined_lc == inline_terms(inlined_lcs, c.lc_map[index], 1)
             IN  IF IsPanic(inlined_lc) THEN inlined_lc
                 ELSE inline_from(
                          c, (index :> compactify(inlined_lc[2])) @@ inlined_lcs,
                          index + 1)

inline_all_lcs(c) ==
    LET inlined_lcs == inline_from(c, <<>>, 0)
    IN  IF IsPanic(inlined_lcs)
        THEN [cs |-> c, ret |-> inlined_lcs]
        ELSE [cs |-> [c EXCEPT !.lc_map = inlined_lcs[2]], ret |-> Ok(<<>>)]

----------------------------------------------------------------------------
(* ConstraintSystemRef<F>: the handle is None or CS(arena).  A method on   *)
(* the None handle leaves the arena alone.                                 *)

HandleNone == "None"

HandleCS == "CS"

Handles == {HandleNone, HandleCS}

\* RefCell::borrow, as ConstraintSystemRef::borrow calls it: one more Ref
\* guard, or a panic while a RefMut guard is outstanding.
RefCell_borrow(b) ==
    IF b.writers > 0 THEN Panic("already mutably borrowed")
    ELSE Ok([b EXCEPT !.readers = @ + 1])

\* A variant of RefCell_borrow_mut that looks at the RefMut guards only.
RefCell_borrow_mut_over_readers(b) ==
    IF b.writers > 0 THEN Panic("already borrowed")
    ELSE Ok([b EXCEPT !.writers = @ + 1])

\* RefCell::borrow_mut, as ConstraintSystemRef::borrow_mut calls it: the one
\* RefMut guard, or a panic while any guard is outstanding.
RefCell_borrow_mut(b) ==
    IF b.writers > 0 \/ b.readers > 0 THEN Panic("already borrowed")
    ELSE Ok([b EXCEPT !.writers = @ + 1])

\* A method of the handle h that takes cs.borrow_mut() (cs.borrow()) for the
\* length of the call gets its guard; the None handle has no RefCell.
CanBorrowMut(h) == h = HandleCS => IsOk(RefCell_borrow_mut(borrows))

CanBorrow(h) == h = HandleCS => IsOk(RefCell_borrow(borrows))

Ref_new_input_variable(h, c, f) ==
    IF h = HandleNone
    THEN [cs |-> c, ret |-> Err(AssignmentMissing), called_f |-> FALSE]
    ELSE new_input_variable(c, f)

Ref_new_witness_variable(h, c, f) ==
    IF h = HandleNone
    THEN [cs |-> c, ret |-> Err(MissingCS), called_f |-> FALSE]
    ELSE new_witness_variable(c, f)

Ref_new_lc(h, c, lc) ==
    IF h = HandleNone THEN [cs |-> c, ret |-> Err(MissingCS)]
    ELSE new_lc(c, lc)

Ref_enforce_constraint(h, c, a, b, c_lc) ==
    IF h = HandleNone THEN [cs |-> c, ret |-> Err(MissingCS)]
    ELSE enforce_constraint(c, a, b, c_lc)

Ref_enforce_named_constraint(h, c, name, a, b, c_lc) ==
    IF h = HandleNone THEN [cs |-> c, ret |-> Err(MissingCS)]
    ELSE enforce_named_constraint(c, name, a, b, c_lc)

\* ns(name): enters the namespace and returns Namespace { inner, entered_ns }.
Ref_ns(h, c, name) ==
    [ cs |-> IF h = HandleNone THEN c ELSE enter_namespace(c, name),
      ret |-> [inner |-> h, entered_ns |-> TRUE] ]

Ref_leave_namespace(h, c) ==
    IF h = HandleNone THEN c ELSE leave_namespace(c)

Ref_inline_all_lcs(h, c) ==
    IF h = HandleNone THEN [cs |-> c, ret |-> Ok(<<>>)] ELSE inline_all_lcs(c)

\* ConstraintSystem::outline_lcs: unimplemented!()
outline_lcs(c) == [cs |-> c, ret |-> Panic("not implemented")]

Ref_outline_lcs(h, c) ==
    IF h = HandleNone THEN [cs |-> c, ret |-> Ok(<<>>)] ELSE outline_lcs(c)

\* The getters of the handle: each reads one field of the arena under
\* cs.borrow(), and has a fixed answer on the None handle.
Getters ==
    {"current_namespace", "is_in_setup_mode", "num_constraints",
     "num_instance_variables", "num_witness_variables",
     "should_construct_matrices"}

Ref_get(h, c, op) ==
    CASE op = "current_namespace" ->
            IF h = HandleNone THEN "" ELSE c.current_namespace_path
      [] op = "is_in_setup_mode" ->
            IF h = HandleNone THEN FALSE ELSE is_in_setup_mode(c)
      [] op = "num_constraints" ->
            IF h = HandleNone THEN 0 ELSE c.num_constraints
      [] op = "num_instance_variables" ->
            IF h = HandleNone THEN 0 ELSE c.num_instance_variables
      [] op = "num_witness_variables" ->
            IF h = HandleNone THEN 0 ELSE c.num_witness_variables
      [] op = "should_construct_matrices" ->
            IF h = HandleNone THEN FALSE ELSE should_construct_matrices(c)

Ref_to_matrices(h, c) ==
    IF h = HandleNone THEN None ELSE to_matrices(c)

Ref_is_satisfied(h, c) ==
    IF h = HandleNone THEN [cs |-> c, ret |-> None] ELSE is_satisfied(c)

Ref_which_is_unsatisfied(h, c) ==
    IF h = HandleNone THEN [cs |-> c, ret |-> None] ELSE which_is_unsatisfied(c)

Ref_assigned_value(h, c, v) ==
    IF h = HandleNone THEN [cs |-> c, ret |-> None] ELSE assigned_value(c, v)

----------------------------------------------------------------------------
(* Namespace<F>.                                                           *)

\* impl Drop for Namespace
Namespace_drop(n, c) ==
    IF n.entered_ns THEN Ref_leave_namespace(n.inner, c) ELSE c

\* Namespace::leave_namespace(self): leaves through the handle; `self` is
\* consumed, so it is dropped when the method returns.
Namespace_leave_namespace(n, c) ==
    Namespace_drop(n, Ref_leave_namespace(n.inner, c))

----------------------------------------------------------------------------
(* The inputs of the calls.                                                *)

\* What a value thunk does when it is called: it returns a value or fails.
Thunks(values) == {Ok(v) : v \in values} \cup {Err(AssignmentMissing)}

\* The variables a caller holds: the constants of ConstraintSystem::zero() and
\* ConstraintSystem::one(), and the variables in `returned`, the values that
\* new_input_variable, new_witness_variable and new_lc returned with Ok.  A
\* call that failed returned no variable, though it advanced the counter.
VarsOf(returned) == {Zero, One} \cup returned

\* The variables returned so far, after a call that returned r.
HandsOut(returned, r) ==
    IF IsOk(r.ret) THEN returned \cup {r.ret[2]} ELSE returned

\* LinearCombination::from(var)
LcOf(var) == << <<1, var>> >>

\* The constraints a caller enforces: x * y = z over single variables, for the
\* triples of CandidateTriples whose variables the arena has handed out.
CandidateTriples ==
    { <<Instance(1), Witness(0), Witness(1)>>,
      <<Witness(1), One, Witness(1)>>,
      <<SymbolicLc(0), One, Witness(0)>>,
      <<Zero, Witness(0), Zero>> }

\* The linear combinations a caller registers with new_lc.
LcInputs(returned) ==
    {lc \in {LcOf(Witness(0)), << <<2, Witness(0)>>, <<1, SymbolicLc(0)>> >>} :
        \A i \in DOMAIN lc : lc[i][2] \in VarsOf(returned)}

\* The linear combinations a caller can pass to new_lc: a Variable is a plain
\* value, so a term may name a variable this arena has not handed out (one of
\* another arena).
AnyLcInputs ==
    { LcOf(Witness(0)),
      << <<2, Witness(0)>>, <<1, SymbolicLc(0)>> >>,
      LcOf(SymbolicLc(2)) }

\* Linear combinations with references one deep: 2 w + l and 16 w + l, the
\* second with coefficients that cancel (16 + 1 = 0 in F) when l is w.
ChainLcInputs(returned) ==
    {lc \in { LcOf(Witness(0)),
              << <<2, Witness(0)>>, <<1, SymbolicLc(0)>> >>,
              << <<16, Witness(0)>>, <<1, SymbolicLc(0)>> >> } :
        \A i \in DOMAIN lc : lc[i][2] \in VarsOf(returned)}

\* Constraints over registered linear combinations: enforce_constraint
\* registers its arguments, so a reference to SymbolicLc(1) is two deep.
ChainTriples(returned) ==
    {t \in { <<SymbolicLc(1), One, Witness(0)>>,
             <<SymbolicLc(0), One, SymbolicLc(1)>> } :
        \A i \in 1 .. 3 : t[i] \in VarsOf(returned)}

ConstraintInputs(returned) ==
    {t \in CandidateTriples : \A i \in 1 .. 3 : t[i] \in VarsOf(returned)}

NamespaceNames == {"outer", "inner"}

\* Scopes nest as deep as there are names.
MaxDepth == Cardinality(NamespaceNames)

ConstraintNames == {"c"}

\* The values a caller writes over an entry of witness_assignment.
NewValues == {3, 5}

\* The variables a caller reads with assigned_value.
ReadVars == {Witness(0), SymbolicLc(0), SymbolicLc(1)}

----------------------------------------------------------------------------
(* The actions: one per call on the handle h.                              *)

Call(op, h, args, ret, called_f) ==
    [op |-> op, handle |-> h, args |-> args, ret |-> ret, called_f |-> called_f]

\* What is recorded for a call that ended the process: a panic raised while
\* another panic unwinds aborts, and no caller can catch it.
Abort == <<"Abort">>

\* The process runs: no call has aborted it.
Alive == last.ret # Abort

Fresh(c) == [c EXCEPT !.mode = Prove(TRUE)] = ConstraintSystem_new

\* The pairs <<variable, value>> of the allocations that returned a variable
\* after their thunk f returned a value; r is what the call returned.
Supplies(s, f, r) ==
    IF IsOk(r.ret) /\ r.called_f THEN s \cup {<<r.ret[2], f[2]>>} ELSE s

\* cs.mode = m, on a new arena (mode is a public field).
SetMode(m) ==
    /\ Alive
    /\ CanBorrowMut(HandleCS)
    /\ Fresh(cs)
    /\ cs.mode # m
    /\ cs' = [cs EXCEPT !.mode = m]
    /\ last' = Call("set_mode", HandleCS, <<>>, Ok(<<>>), FALSE)
    /\ UNCHANGED <<scopes, supplied, handed>>
    /\ UNCHANGED <<borrowing, gadgets>>

\* cs.mode = m at any time.
SwitchMode(m) ==
    /\ Alive
    /\ CanBorrowMut(HandleCS)
    /\ cs.mode # m
    /\ cs' = [cs EXCEPT !.mode = m]
    /\ last' = Call("set_mode", HandleCS, <<>>, Ok(<<>>), FALSE)
    /\ UNCHANGED <<scopes, supplied, handed>>
    /\ UNCHANGED <<borrowing, gadgets>>

NewInputVariable(h, f) ==
    /\ Alive
    /\ CanBorrowMut(h)
    /\ h = HandleCS => cs.num_instance_variables < 1 + MaxInstance
    /\ LET r == Ref_new_input_variable(h, cs, f)
       IN  /\ cs' = r.cs
           /\ last' = Call("new_input_variable", h, <<f>>, r.ret, r.called_f)
           /\ supplied' = Supplies(supplied, f, r)
           /\ handed' = [handed EXCEPT !.cs = HandsOut(@, r)]
    /\ UNCHANGED scopes
    /\ UNCHANGED <<borrowing, gadgets>>

NewWitnessVariable(h, f) ==
    /\ Alive
    /\ CanBorrowMut(h)
    /\ h = HandleCS => cs.num_witness_variables < MaxWitness
    /\ LET r == Ref_new_witness_variable(h, cs, f)
       IN  /\ cs' = r.cs
           /\ last' = Call("new_witness_variable", h, <<f>>, r.ret, r.called_f)
           /\ supplied' = Supplies(supplied, f, r)
           /\ handed' = [handed EXCEPT !.cs = HandsOut(@, r)]
    /\ UNCHANGED scopes
    /\ UNCHANGED <<borrowing, gadgets>>

NewLc(h, lc) ==
    /\ Alive
    /\ CanBorrowMut(h)
    /\ h = HandleCS => cs.num_linear_combinations < MaxLcs
    /\ LET r == Ref_new_lc(h, cs, lc)
       IN  /\ cs' = r.cs
           /\ last' = Call("new_lc", h, <<>>, r.ret, FALSE)
           /\ handed' = [handed EXCEPT !.cs = HandsOut(@, r)]
    /\ UNCHANGED <<scopes, supplied>>
    /\ UNCHANGED <<borrowing, gadgets>>

EnforceConstraint(h, a, b, c) ==
    /\ Alive
    /\ CanBorrowMut(h)
    /\ h = HandleCS => cs.num_constraints < MaxConstraints
    /\ LET r == Ref_enforce_constraint(h, cs, a, b, c)
       IN  /\ cs' = r.cs
           /\ last' = Call("enforce_constraint", h, <<>>, r.ret, FALSE)
    /\ UNCHANGED <<scopes, supplied, handed>>
    /\ UNCHANGED <<borrowing, gadgets>>

EnforceNamedConstraint(h, name, a, b, c) ==
    /\ Alive
    /\ CanBorrowMut(h)
    /\ h = HandleCS => cs.num_constraints < MaxConstraints
    /\ LET r == Ref_enforce_named_constraint(h, cs, name, a, b, c)
       IN  /\ cs' = r.cs
           /\ last' = Call("enforce_named_constraint", h, <<name>>, r.ret, FALSE)
    /\ UNCHANGED <<scopes, supplied, handed>>
    /\ UNCHANGED <<borrowing, gadgets>>

\* let scope = h.ns(name);
Ns(h, name) ==
    /\ Alive
    /\ CanBorrowMut(h)
    /\ Len(scopes) < MaxDepth + 1
    /\ h = HandleCS => Len(cs.namespace) < MaxDepth
    /\ LET r == Ref_ns(h, cs, name)
       IN  /\ cs' = r.cs
           /\ scopes' = Append(scopes, r.ret)
           /\ last' = Call("ns", h, <<>>, Ok(<<>>), FALSE)
    /\ UNCHANGED <<supplied, handed>>
    /\ UNCHANGED <<borrowing, gadgets>>

\* let scope = Namespace::from(h): a scope object that entered no namespace.
NamespaceFrom(h) ==
    /\ Alive
    /\ Len(scopes) < MaxDepth + 1
    /\ scopes' = Append(scopes, [inner |-> h, entered_ns |-> FALSE])
    /\ last' = Call("from", h, <<>>, Ok(<<>>), FALSE)
    /\ UNCHANGED <<cs, supplied, handed>>
    /\ UNCHANGED <<borrowing, gadgets>>

\* let scope = scopes[i].clone(): Clone is derived for Namespace, so the clone
\* has the handle and the entered_ns flag of the scope object it was made of.
CloneNamespace(i) ==
    /\ Alive
    /\ i \in DOMAIN scopes
    /\ Len(scopes) < MaxDepth + 1
    /\ scopes' = Append(scopes, scopes[i])
    /\ last' = Call("clone", scopes[i].inner, <<>>, Ok(<<>>), FALSE)
    /\ UNCHANGED <<cs, supplied, handed>>
    /\ UNCHANGED <<borrowing, gadgets>>

\* h.borrow_mut().unwrap().enter_namespace(name): the method of the arena is
\* public; no scope object is made.
EnterNamespace(name) ==
    /\ Alive
    /\ frames = <<>>
    /\ CanBorrowMut(HandleCS)
    /\ Len(cs.namespace) < MaxDepth
    /\ cs' = enter_namespace(cs, name)
    /\ last' = Call("enter_namespace", HandleCS, <<>>, Ok(<<>>), FALSE)
    /\ UNCHANGED <<scopes, supplied, handed>>
    /\ UNCHANGED <<borrowing, gadgets>>

\* h.borrow_mut().unwrap().leave_namespace(): the method of the arena is
\* public; the scope objects stay alive.
ArenaLeaveNamespace ==
    /\ Alive
    /\ frames = <<>>
    /\ CanBorrowMut(HandleCS)
    /\ cs' = leave_namespace(cs)
    /\ last' = Call("arena_leave_namespace", HandleCS, <<>>, Ok(<<>>), FALSE)
    /\ UNCHANGED <<scopes, supplied, handed>>
    /\ UNCHANGED <<borrowing, gadgets>>

\* What the release of the scope object n returns: Drop and leave_namespace
\* reach cs.borrow_mut() when they leave through the CS handle, and panic
\* when the RefCell refuses the guard; the arena is then left as it was.
Release(n, leaves) ==
    IF leaves /\ ~CanBorrowMut(n.inner) THEN RefCell_borrow_mut(borrows)
    ELSE Ok(<<>>)

\* The scope object scopes[i] goes out of scope, in the caller or in the
\* running thunk that owns it.  A panic of Drop unwinds the allocation whose
\* thunk is running, which gives its RefMut back.
DropNamespace(i) ==
    /\ Alive
    /\ i \in DOMAIN scopes
    /\ LET n == scopes[i]
           ret == Release(n, n.entered_ns)
       IN  /\ cs' = IF IsPanic(ret) THEN cs ELSE Namespace_drop(n, cs)
           /\ last' = Call("drop", n.inner, <<>>, ret, FALSE)
           /\ frames' = IF IsPanic(ret) THEN <<>> ELSE frames
           /\ borrows' = IF IsPanic(ret)
                         THEN [borrows EXCEPT !.writers = @ - Len(frames)]
                         ELSE borrows
    /\ scopes' = SubSeq(scopes, 1, i - 1) \o SubSeq(scopes, i + 1, Len(scopes))
    /\ UNCHANGED <<supplied, handed>>
    /\ UNCHANGED gadgets

\* scopes[i].leave_namespace(), in the caller or in the running thunk.  When
\* the guard is refused the panic unwinds through the consumed scope object:
\* if it entered a namespace its Drop asks for the guard again and panics
\* during the unwinding, which aborts the process.
LeaveNamespace(i) ==
    /\ Alive
    /\ i \in DOMAIN scopes
    /\ LET n == scopes[i]
           refused == Release(n, TRUE)
           ret == IF IsPanic(refused) /\ n.entered_ns THEN Abort ELSE refused
       IN  /\ cs' = IF IsOk(ret) THEN Namespace_leave_namespace(n, cs) ELSE cs
           /\ last' = Call("leave_namespace", n.inner, <<>>, ret, FALSE)
           /\ frames' = IF IsPanic(ret) THEN <<>> ELSE frames
           /\ borrows' = IF IsPanic(ret)
                         THEN [borrows EXCEPT !.writers = @ - Len(frames)]
                         ELSE borrows
           /\ scopes' = IF ret = Abort THEN scopes
                        ELSE SubSeq(scopes, 1, i - 1) \o SubSeq(scopes, i + 1, Len(scopes))
    /\ UNCHANGED <<supplied, handed>>
    /\ UNCHANGED gadgets

InlineAllLcs(h) ==
    /\ Alive
    /\ CanBorrowMut(h)
    /\ LET r == Ref_inline_all_lcs(h, cs)
       IN  /\ cs' = r.cs
           /\ last' = Call("inline_all_lcs", h, <<>>, r.ret, FALSE)
    /\ UNCHANGED <<scopes, supplied, handed>>
    /\ UNCHANGED <<borrowing, gadgets>>

\* h.outline_lcs(): the method of the arena is not implemented; its panic
\* drops the RefMut of the call.
OutlineLcs(h) ==
    /\ Alive
    /\ CanBorrowMut(h)
    /\ LET r == Ref_outline_lcs(h, cs)
       IN  /\ cs' = r.cs
           /\ last' = Call("outline_lcs", h, <<>>, r.ret, FALSE)
    /\ UNCHANGED <<scopes, supplied, handed>>
    /\ UNCHANGED <<borrowing, gadgets>>

\* h.current_namespace(), h.is_in_setup_mode(), h.num_constraints(), ...
Get(h, op) ==
    /\ Alive
    /\ CanBorrow(h)
    /\ op \in Getters
    /\ last' = Call(op, h, <<>>, Ok(Ref_get(h, cs, op)), FALSE)
    /\ UNCHANGED <<cs, scopes, supplied, handed>>
    /\ UNCHANGED <<borrowing, gadgets>>

\* The queries borrow the arena immutably: they change nothing but the
\* evaluation cache, and their value is the operator's value in this state.
ToMatrices(h) ==
    /\ Alive
    /\ CanBorrow(h)
    /\ Ref_to_matrices(h, cs) \in {None} \cup {Ref_to_matrices(h, cs)}
    /\ UNCHANGED vars

IsSatisfied(h) ==
    /\ Alive
    /\ CanBorrow(h)
    /\ cs' = Ref_is_satisfied(h, cs).cs
    /\ UNCHANGED <<scopes, last, supplied, handed>>
    /\ UNCHANGED <<borrowing, gadgets>>

WhichIsUnsatisfied(h) ==
    /\ Alive
    /\ CanBorrow(h)
    /\ cs' = Ref_which_is_unsatisfied(h, cs).cs
    /\ UNCHANGED <<scopes, last, supplied, handed>>
    /\ UNCHANGED <<borrowing, gadgets>>

AssignedValue(h, v) ==
    /\ Alive
    /\ CanBorrow(h)
    /\ cs' = Ref_assigned_value(h, cs, v).cs
    /\ UNCHANGED <<scopes, last, supplied, handed>>
    /\ UNCHANGED <<borrowing, gadgets>>

\* cs.borrow_mut().unwrap().witness_assignment[j] = v: the assignment vectors
\* are public fields (the scenario that changes z to 16).
SetWitnessAssignment(j, v) ==
    /\ Alive
    /\ CanBorrowMut(HandleCS)
    /\ j < Len(cs.witness_assignment)
    /\ cs.witness_assignment[j + 1] # v
    /\ cs' = [cs EXCEPT !.witness_assignment[j + 1] = v]
    /\ last' = Call("set_witness_assignment", HandleCS, <<j, v>>, Ok(<<>>), FALSE)
    /\ UNCHANGED <<scopes, supplied, handed>>
    /\ UNCHANGED <<borrowing, gadgets>>

\* cs.borrow_mut().unwrap().num_linear_combinations = n: the counter is a
\* public field, and new_lc inserts at the key it holds.  The writes taken
\* here move the counter forward, so that lc_map skips keys.
SetNumLinearCombinations(n) ==
    /\ Alive
    /\ CanBorrowMut(HandleCS)
    /\ cs.num_linear_combinations < n
    /\ cs' = [cs EXCEPT !.num_linear_combinations = n]
    /\ last' = Call("set_num_linear_combinations", HandleCS, <<n>>, Ok(<<>>), FALSE)
    /\ UNCHANGED <<scopes, supplied, handed>>
    /\ UNCHANGED <<borrowing, gadgets>>

----------------------------------------------------------------------------
(* Borrowing.  Every method of the handle takes the RefCell's guard for    *)
(* the length of the call: borrow_mut() in the methods that change the     *)
(* arena, borrow() in the queries.  A caller can also keep a guard, and    *)
(* the thunk of an allocation runs while the allocation's RefMut is held.  *)

ExclusiveOps ==
    {"new_input_variable", "new_witness_variable", "new_lc",
     "enforce_constraint", "enforce_named_constraint", "ns", "leave_namespace",
     "inline_all_lcs", "outline_lcs", "borrow_mut"}

SharedOps ==
    {"current_namespace", "is_in_setup_mode", "num_constraints",
     "num_instance_variables", "num_witness_variables",
     "should_construct_matrices", "to_matrices", "is_satisfied",
     "which_is_unsatisfied", "assigned_value", "borrow"}

\* The methods a caller can name: leave_namespace of the handle is private,
\* and is reached through the scope objects only.
PublicOps == (ExclusiveOps \cup SharedOps) \ {"leave_namespace"}

\* What the RefCell answers to the guard request of the method op.
Request(op) ==
    IF op \in SharedOps THEN RefCell_borrow(borrows) ELSE RefCell_borrow_mut(borrows)

\* The return value of a call that has not returned yet.
Running == <<"Running">>

\* let guard = h.borrow(); the caller keeps the Ref.
Borrow(h) ==
    /\ Alive
    /\ h = HandleCS
    /\ frames = <<>>
    /\ borrows.readers < MaxReaders
    /\ LET r == RefCell_borrow(borrows)
       IN  /\ borrows' = IF IsOk(r) THEN r[2] ELSE borrows
           /\ last' = Call("borrow", h, <<>>, IF IsOk(r) THEN Ok(<<>>) ELSE r, FALSE)
    /\ UNCHANGED <<cs, scopes, supplied, handed, frames>>
    /\ UNCHANGED gadgets

\* let guard = h.borrow_mut(); the caller keeps the RefMut.
BorrowMut(h) ==
    /\ Alive
    /\ h = HandleCS
    /\ frames = <<>>
    /\ LET r == RefCell_borrow_mut(borrows)
       IN  /\ borrows' = IF IsOk(r) THEN r[2] ELSE borrows
           /\ last' = Call("borrow_mut", h, <<>>, IF IsOk(r) THEN Ok(<<>>) ELSE r, FALSE)
    /\ UNCHANGED <<cs, scopes, supplied, handed, frames>>
    /\ UNCHANGED gadgets

\* The caller drops a Ref it kept.
DropRef ==
    /\ Alive
    /\ frames = <<>>
    /\ borrows.readers > 0
    /\ borrows' = [borrows EXCEPT !.readers = @ - 1]
    /\ UNCHANGED <<cs, scopes, last, supplied, handed, frames>>
    /\ UNCHANGED gadgets

\* The caller drops the RefMut it kept.
DropRefMut ==
    /\ Alive
    /\ frames = <<>>
    /\ borrows.writers > 0
    /\ borrows' = [borrows EXCEPT !.writers = @ - 1]
    /\ UNCHANGED <<cs, scopes, last, supplied, handed, frames>>
    /\ UNCHANGED gadgets

\* The method op of the handle, called while the RefCell refuses its guard:
\* borrow() or borrow_mut() panics before the arena's method is entered.
Refused(h, op) ==
    /\ Alive
    /\ h = HandleCS
    /\ frames = <<>>
    /\ IsPanic(Request(op))
    /\ last' = Call(op, h, <<>>, Request(op), FALSE)
    /\ UNCHANGED <<cs, scopes, supplied, handed, borrows, frames>>
    /\ UNCHANGED gadgets

\* h.new_witness_variable(f) up to the call of f: borrow_mut(), then the
\* counter is read into `index` and advanced.  In Setup f is not called.
BeginNewWitnessVariable(h) ==
    /\ Alive
    /\ h = HandleCS
    /\ frames = <<>>
    /\ IsOk(RefCell_borrow_mut(borrows))
    /\ ~is_in_setup_mode(cs)
    /\ cs.num_witness_variables < MaxWitness
    /\ borrows' = RefCell_borrow_mut(borrows)[2]
    /\ frames' = Append(frames, [op |-> "new_witness_variable",
                                 index |-> cs.num_witness_variables])
    /\ cs' = [cs EXCEPT !.num_witness_variables = @ + 1]
    /\ last' = Call("new_witness_variable", h, <<>>, Running, TRUE)
    /\ UNCHANGED <<scopes, supplied, handed>>
    /\ UNCHANGED gadgets

\* h.new_input_variable(f) up to the call of f: borrow_mut(), then the
\* counter is read into `index` and advanced.  In Setup f is not called.
BeginNewInputVariable(h) ==
    /\ Alive
    /\ h = HandleCS
    /\ frames = <<>>
    /\ IsOk(RefCell_borrow_mut(borrows))
    /\ ~is_in_setup_mode(cs)
    /\ cs.num_instance_variables < 1 + MaxInstance
    /\ borrows' = RefCell_borrow_mut(borrows)[2]
    /\ frames' = Append(frames, [op |-> "new_input_variable",
                                 index |-> cs.num_instance_variables])
    /\ cs' = [cs EXCEPT !.num_instance_variables = @ + 1]
    /\ last' = Call("new_input_variable", h, <<>>, Running, TRUE)
    /\ UNCHANGED <<scopes, supplied, handed>>
    /\ UNCHANGED gadgets

\* The running thunk calls the method op of the handle of the same arena: the
\* guard is refused, and the panic unwinds the allocation, dropping its RefMut.
ThunkCalls(op) ==
    /\ Alive
    /\ frames # <<>>
    /\ IsPanic(Request(op))
    /\ last' = Call(op, HandleCS, <<>>, Request(op), FALSE)
    /\ frames' = <<>>
    /\ borrows' = [borrows EXCEPT !.writers = @ - Len(frames)]
    /\ UNCHANGED <<cs, scopes, supplied, handed>>
    /\ UNCHANGED gadgets

\* The running thunk returns f: self.witness_assignment.push(f()?), then
\* Ok(Variable::Witness(index)), or self.instance_assignment.push(f()?), then
\* Ok(Variable::Instance(index)); the RefMut is dropped.
ThunkReturns(f) ==
    /\ Alive
    /\ frames # <<>>
    /\ LET top == frames[Len(frames)]
           input == top.op = "new_input_variable"
           var == IF input THEN Instance(top.index) ELSE Witness(top.index)
           ret == IF IsOk(f) THEN Ok(var) ELSE f
       IN  /\ cs' = IF ~IsOk(f) THEN cs
                    ELSE IF input
                    THEN [cs EXCEPT !.instance_assignment = Append(@, f[2])]
                    ELSE [cs EXCEPT !.witness_assignment = Append(@, f[2])]
           /\ last' = Call(top.op, HandleCS, <<f>>, ret, TRUE)
           /\ supplied' = Supplies(supplied, f, [ret |-> ret, called_f |-> TRUE])
           /\ handed' = [handed EXCEPT !.cs = HandsOut(@, [ret |-> ret])]
    /\ frames' = SubSeq(frames, 1, Len(frames) - 1)
    /\ borrows' = [borrows EXCEPT !.writers = @ - 1]
    /\ UNCHANGED scopes
    /\ UNCHANGED gadgets

----------------------------------------------------------------------------
(* Spec: an arena whose mode is chosen once, before anything is allocated; *)
(* allocation, constraints x * y = z over single variables, and the        *)
(* satisfaction and matrix queries.                                        *)

Init ==
    /\ cs = ConstraintSystem_new
    /\ scopes = <<>>
    /\ last = Call("new", HandleCS, <<>>, Ok(<<>>), FALSE)
    /\ supplied = {}
    /\ handed = [cs |-> {}, copy |-> {}]
    /\ borrows = [readers |-> 0, writers |-> 0]
    /\ frames = <<>>
    /\ cubic = <<>>
    /\ curve = <<>>
    /\ copy = <<>>

Next ==
    \/ \E m \in Modes : SetMode(m)
    \/ \E f \in Thunks(InstanceValues) : NewInputVariable(HandleCS, f)
    \/ \E f \in Thunks(WitnessValues) : NewWitnessVariable(HandleCS, f)
    \/ \E t \in ConstraintInputs(handed.cs) :
          EnforceConstraint(HandleCS, LcOf(t[1]), LcOf(t[2]), LcOf(t[3]))
    \/ ToMatrices(HandleCS)
    \/ IsSatisfied(HandleCS)
    \/ WhichIsUnsatisfied(HandleCS)

Spec == Init /\ [][Next]_vars

----------------------------------------------------------------------------
(* SpecHandles: the same calls made through either variant of the handle,  *)
(* ConstraintSystemRef::None or ConstraintSystemRef::CS.                   *)

NextHandles ==
    \/ \E m \in Modes : SetMode(m)
    \/ \E h \in Handles, f \in Thunks(InstanceValues) : NewInputVariable(h, f)
    \/ \E h \in Handles, f \in Thunks(InstanceValues) : NewWitnessVariable(h, f)
    \/ \E h \in Handles, lc \in LcInputs(handed.cs) : NewLc(h, lc)
    \/ \E h \in Handles, t \in ConstraintInputs(handed.cs) :
          EnforceConstraint(h, LcOf(t[1]), LcOf(t[2]), LcOf(t[3]))
    \/ \E h \in Handles, name \in ConstraintNames, t \in ConstraintInputs(handed.cs) :
          EnforceNamedConstraint(h, name, LcOf(t[1]), LcOf(t[2]), LcOf(t[3]))
    \/ \E h \in Handles : ToMatrices(h)
    \/ \E h \in Handles : IsSatisfied(h)
    \/ \E h \in Handles : WhichIsUnsatisfied(h)
    \/ \E h \in Handles : OutlineLcs(h)
    \/ \E h \in Handles, op \in Getters : Get(h, op)

SpecHandles == Init /\ [][NextHandles]_vars

----------------------------------------------------------------------------
(* SpecNames: namespaces.  Scope objects are created by ns(name) and       *)
(* released innermost first, by going out of scope or by leave_namespace;  *)
(* constraints are enforced with generated and with given names.           *)

NextNames ==
    \/ \E h \in Handles, name \in NamespaceNames : Ns(h, name)
    \/ DropNamespace(Len(scopes))
    \/ LeaveNamespace(Len(scopes))
    \/ \E v \in InstanceValues : NewWitnessVariable(HandleCS, Ok(v))
    \/ \E x \in {Witness(0)} \cap VarsOf(handed.cs) :
          EnforceConstraint(HandleCS, LcOf(x), LcOf(One), LcOf(One))
    \/ \E name \in ConstraintNames, x \in {Witness(0)} \cap VarsOf(handed.cs) :
          EnforceNamedConstraint(HandleCS, name, LcOf(x), LcOf(One), LcOf(One))
    \/ WhichIsUnsatisfied(HandleCS)

SpecNames == Init /\ [][NextNames]_vars

----------------------------------------------------------------------------
(* SpecScopes: every way a caller has to change the namespace stack.       *)
(* Scope objects are made by ns(name), by Namespace::from(handle) and by   *)
(* cloning a scope object, the public enter_namespace and leave_namespace  *)
(* of the arena are called through borrow_mut(), and constraints are       *)
(* enforced with generated and with given names.                           *)

NextScopes ==
    \/ \E name \in NamespaceNames : Ns(HandleCS, name)
    \/ NamespaceFrom(HandleCS)
    \/ \E i \in DOMAIN scopes : CloneNamespace(i)
    \/ \E name \in NamespaceNames : EnterNamespace(name)
    \/ ArenaLeaveNamespace
    \/ \E i \in DOMAIN scopes : DropNamespace(i)
    \/ \E i \in DOMAIN scopes : LeaveNamespace(i)
    \/ EnforceConstraint(HandleCS, LcOf(One), LcOf(One), LcOf(One))
    \/ \E name \in ConstraintNames :
          EnforceNamedConstraint(HandleCS, name, LcOf(One), LcOf(One), LcOf(One))

SpecScopes == Init /\ [][NextScopes]_vars

----------------------------------------------------------------------------
(* SpecLcs: symbolic linear combinations, inlining and the matrices, on an *)
(* arena whose public mode field may be written at any time.               *)

NextLcs ==
    \/ \E m \in Modes : SwitchMode(m)
    \/ \E f \in Thunks(InstanceValues) : NewInputVariable(HandleCS, f)
    \/ \E f \in Thunks(InstanceValues) : NewWitnessVariable(HandleCS, f)
    \/ \E lc \in LcInputs(handed.cs) : NewLc(HandleCS, lc)
    \/ \E t \in ConstraintInputs(handed.cs) :
          EnforceConstraint(HandleCS, LcOf(t[1]), LcOf(t[2]), LcOf(t[3]))
    \/ InlineAllLcs(HandleCS)
    \/ ToMatrices(HandleCS)
    \/ IsSatisfied(HandleCS)

SpecLcs == Init /\ [][NextLcs]_vars

----------------------------------------------------------------------------
(* SpecValues: values.  Witnesses are allocated, linear combinations are   *)
(* registered and read with assigned_value, and a caller overwrites an     *)
(* entry of the public witness_assignment.                                 *)

NextValues ==
    \/ \E m \in Modes : SetMode(m)
    \/ \E v \in InstanceValues : NewWitnessVariable(HandleCS, Ok(v))
    \/ \E lc \in LcInputs(handed.cs) : NewLc(HandleCS, lc)
    \/ \E t \in ConstraintInputs(handed.cs) :
          EnforceConstraint(HandleCS, LcOf(t[1]), LcOf(t[2]), LcOf(t[3]))
    \/ \E v \in ReadVars \cap VarsOf(handed.cs) : AssignedValue(HandleCS, v)
    \/ \E v \in NewValues : SetWitnessAssignment(0, v)
    \/ InlineAllLcs(HandleCS)
    \/ IsSatisfied(HandleCS)

SpecValues == Init /\ [][NextValues]_vars

----------------------------------------------------------------------------
(* SpecClone: a clone of the ConstraintSystem value.  Clone is derived, so  *)
(* every field is cloned; the clone of lc_assignment_cache, an Rc, is a     *)
(* pointer to the same RefCell: both values read and write one cache, kept  *)
(* in cs.lc_assignment_cache.                                               *)

\* The value c with the cache its Rc points to.
SharedCache(c) == [c EXCEPT !.lc_assignment_cache = cs.lc_assignment_cache]

\* let copy = cs.borrow().unwrap().clone();
Clone ==
    /\ Alive
    /\ CanBorrow(HandleCS)
    /\ copy = <<>>
    /\ copy' = cs
    /\ handed' = [handed EXCEPT !.copy = handed.cs]
    /\ UNCHANGED <<cs, scopes, last, supplied, borrowing, cubic, curve>>

\* op(copy) for an operation of the arena on the clone: r is what it returns.
OnCopy(r) ==
    /\ Alive
    /\ copy' = r.cs
    /\ cs' = [cs EXCEPT !.lc_assignment_cache = r.cs.lc_assignment_cache]
    /\ handed' = [handed EXCEPT !.copy = HandsOut(@, r)]
    /\ UNCHANGED <<scopes, last, supplied, borrowing, cubic, curve>>

\* copy.new_witness_variable(f)
CopyNewWitnessVariable(f) ==
    /\ Alive
    /\ copy # <<>>
    /\ copy.num_witness_variables < MaxWitness
    /\ OnCopy(new_witness_variable(SharedCache(copy), f))

\* copy.new_lc(lc)
CopyNewLc(lc) ==
    /\ Alive
    /\ copy # <<>>
    /\ copy.num_linear_combinations < MaxLcs
    /\ \A i \in DOMAIN lc : lc[i][2] \in VarsOf(handed.copy)
    /\ OnCopy(new_lc(SharedCache(copy), lc))

\* copy.assigned_value(v)
CopyAssignedValue(v) ==
    /\ Alive
    /\ copy # <<>>
    /\ v \in VarsOf(handed.copy)
    /\ OnCopy(assigned_value(SharedCache(copy), v))

NextClone ==
    \/ \E v \in InstanceValues : NewWitnessVariable(HandleCS, Ok(v))
    \/ \E lc \in LcInputs(handed.cs) : NewLc(HandleCS, lc)
    \/ \E v \in ReadVars \cap VarsOf(handed.cs) : AssignedValue(HandleCS, v)
    \/ Clone
    \/ \E v \in InstanceValues : CopyNewWitnessVariable(Ok(v))
    \/ \E lc \in {LcOf(Witness(0)), << <<2, Witness(0)>> >>} : CopyNewLc(lc)
    \/ \E v \in ReadVars : CopyAssignedValue(v)

SpecClone == Init /\ [][NextClone]_vars

----------------------------------------------------------------------------
(* SpecAnyLc: new_lc with any linear combination a caller can build.       *)

NextAnyLc ==
    \/ \E m \in Modes : SetMode(m)
    \/ \E v \in InstanceValues : NewWitnessVariable(HandleCS, Ok(v))
    \/ \E lc \in AnyLcInputs : NewLc(HandleCS, lc)
    \/ \E t \in ConstraintInputs(handed.cs) :
          EnforceConstraint(HandleCS, LcOf(t[1]), LcOf(t[2]), LcOf(t[3]))
    \/ InlineAllLcs(HandleCS)

SpecAnyLc == Init /\ [][NextAnyLc]_vars

----------------------------------------------------------------------------
(* SpecInline: inlining of linear combinations that refer to earlier ones, *)
(* one and two references deep, in an arena whose mode is chosen once.     *)

NextInline ==
    \/ \E m \in Modes : SetMode(m)
    \/ \E f \in Thunks(InstanceValues) : NewWitnessVariable(HandleCS, f)
    \/ \E lc \in ChainLcInputs(handed.cs) : NewLc(HandleCS, lc)
    \/ \E n \in 0 .. MaxLcs : SetNumLinearCombinations(n)
    \/ \E t \in ChainTriples(handed.cs) :
          EnforceConstraint(HandleCS, LcOf(t[1]), LcOf(t[2]), LcOf(t[3]))
    \/ InlineAllLcs(HandleCS)
    \/ IsSatisfied(HandleCS)
    \/ WhichIsUnsatisfied(HandleCS)

SpecInline == Init /\ [][NextInline]_vars

----------------------------------------------------------------------------
(* SpecBorrows: the borrows of the arena, in the proving mode of a new      *)
(* arena.  The caller keeps and drops guards, calls methods of the handle  *)
(* and releases scope objects while it keeps them, and allocates variables *)
(* whose thunk calls the handle of the same arena or releases a scope.     *)

NextBorrows ==
    \/ Borrow(HandleCS)
    \/ BorrowMut(HandleCS)
    \/ DropRef
    \/ DropRefMut
    \/ \E v \in InstanceValues : NewWitnessVariable(HandleCS, Ok(v))
    \/ IsSatisfied(HandleCS)
    \/ \E op \in PublicOps \ {"borrow", "borrow_mut"} : Refused(HandleCS, op)
    \/ \E name \in {"outer"} : Ns(HandleCS, name)
    \/ NamespaceFrom(HandleCS)
    \/ \E i \in DOMAIN scopes : DropNamespace(i)
    \/ \E i \in DOMAIN scopes : LeaveNamespace(i)
    \/ BeginNewInputVariable(HandleCS)
    \/ BeginNewWitnessVariable(HandleCS)
    \/ \E op \in PublicOps : ThunkCalls(op)
    \/ \E f \in Thunks(InstanceValues) : ThunkReturns(f)

SpecBorrows == Init /\ [][NextBorrows]_vars

----------------------------------------------------------------------------
(* CubicExtVar<BF, P>: the cubic extension BF[X] / (X^3 - NONRESIDUE) of a  *)
(* base field.  A variable is modelled by its value, a triple <<c0, c1,     *)
(* c2>>; a constraint by the values <<x, y, z>> of its three linear         *)
(* combinations, satisfied when x * y = z.                                  *)

\* P::BaseField: the integers modulo 7, which has cubic non-residues.
Q == 7

\* P::NONRESIDUE: 3 is not a cube modulo 7.
NONRESIDUE == 3

BaseField == 0 .. (Q - 1)

BaseAdd(x, y) == (x + y) % Q

BaseSub(x, y) == (x + Q - y) % Q

BaseMul(x, y) == (x * y) % Q

\* x * y on base field variables: a fresh witness of value x * y and the
\* constraint x * y = witness.
Fp_mul(x, y) == [value |-> BaseMul(x, y), constraint |-> <<x, y, BaseMul(x, y)>>]

\* x.mul_equals(y, z) on base field variables: the one constraint x * y = z.
Fp_mul_equals(x, y, z) == <<x, y, z>>

\* A variant of mul_equals whose check of c2 adds v1 where it is subtracted.
mul_equals_c2_sign(self, other, result) ==
    LET v0 == Fp_mul(self[1], other[1])
        v1 == Fp_mul(self[2], other[2])
        v2 == Fp_mul(self[3], other[3])
        nr_a1_plus_a2 == BaseMul(BaseAdd(self[2], self[3]), NONRESIDUE)
        b1_plus_b2 == BaseAdd(other[2], other[3])
        nr_v1 == BaseMul(v1.value, NONRESIDUE)
        nr_v2 == BaseMul(v2.value, NONRESIDUE)
        to_check_c0 == BaseAdd(BaseAdd(BaseSub(result[1], v0.value), nr_v1), nr_v2)
        a0_plus_a1 == BaseAdd(self[1], self[2])
        b0_plus_b1 == BaseAdd(other[1], other[2])
        to_check_c1 == BaseAdd(BaseAdd(BaseSub(result[2], nr_v2), v0.value), v1.value)
        a0_plus_a2 == BaseAdd(self[1], self[3])
        b0_plus_b2 == BaseAdd(other[1], other[3])
        to_check_c2 == BaseAdd(BaseAdd(BaseAdd(result[3], v0.value), v1.value), v2.value)
    IN  << v0.constraint, v1.constraint, v2.constraint,
           Fp_mul_equals(nr_a1_plus_a2, b1_plus_b2, to_check_c0),
           Fp_mul_equals(a0_plus_a1, b0_plus_b1, to_check_c1),
           Fp_mul_equals(a0_plus_a2, b0_plus_b2, to_check_c2) >>

\* CubicExtVar::mul_equals(self, other, result): the six constraints it adds.
mul_equals(self, other, result) ==
    LET v0 == Fp_mul(self[1], other[1])
        v1 == Fp_mul(self[2], other[2])
        v2 == Fp_mul(self[3], other[3])
        nr_a1_plus_a2 == BaseMul(BaseAdd(self[2], self[3]), NONRESIDUE)
        b1_plus_b2 == BaseAdd(other[2], other[3])
        nr_v1 == BaseMul(v1.value, NONRESIDUE)
        nr_v2 == BaseMul(v2.value, NONRESIDUE)
        to_check_c0 == BaseAdd(BaseAdd(BaseSub(result[1], v0.value), nr_v1), nr_v2)
        a0_plus_a1 == BaseAdd(self[1], self[2])
        b0_plus_b1 == BaseAdd(other[1], other[2])
        to_check_c1 == BaseAdd(BaseAdd(BaseSub(result[2], nr_v2), v0.value), v1.value)
        a0_plus_a2 == BaseAdd(self[1], self[3])
        b0_plus_b2 == BaseAdd(other[1], other[3])
        to_check_c2 == BaseAdd(BaseSub(BaseAdd(result[3], v0.value), v1.value), v2.value)
    IN  << v0.constraint, v1.constraint, v2.constraint,
           Fp_mul_equals(nr_a1_plus_a2, b1_plus_b2, to_check_c0),
           Fp_mul_equals(a0_plus_a1, b0_plus_b1, to_check_c1),
           Fp_mul_equals(a0_plus_a2, b0_plus_b2, to_check_c2) >>

\* The values of the arguments of mul_equals.
CubicSelf == {<<x, y, z>> : x \in {0, 1, 3}, y \in {0, 1, 3}, z \in {0, 1, 3}}

CubicOther == {<<x, y, z>> : x \in {0, 2, 6}, y \in {0, 2, 6}, z \in {0, 2, 6}}

CubicResult == {<<x, y, z>> : x \in BaseField, y \in BaseField, z \in BaseField}

\* a.mul_equals(&b, &r)
MulEquals ==
    /\ cubic.constraints = <<>>
    /\ cubic' = [cubic EXCEPT !.constraints = mul_equals(cubic.a, cubic.b, cubic.r)]
    /\ UNCHANGED <<cs, scopes, last, supplied, handed, borrows, frames, curve, copy>>

\* SpecCubic: mul_equals on every triple of argument values.
InitCubic ==
    /\ cs = ConstraintSystem_new
    /\ scopes = <<>>
    /\ last = Call("new", HandleCS, <<>>, Ok(<<>>), FALSE)
    /\ supplied = {}
    /\ handed = [cs |-> {}, copy |-> {}]
    /\ borrows = [readers |-> 0, writers |-> 0]
    /\ frames = <<>>
    /\ cubic \in [a : CubicSelf, b : CubicOther, r : CubicResult,
                   constraints : {<<>>}]
    /\ curve = <<>>
    /\ copy = <<>>

NextCubic == MulEquals

SpecCubic == InitCubic /\ [][NextCubic]_vars

----------------------------------------------------------------------------
(* Operations of CubicExtVar on witness variables in a proving mode.  The   *)
(* arena is seen through the values of its constraints: cubic.constraints   *)
(* holds one <<x, y, z>> per constraint added, in order.                    *)

\* CubicExtField::one()
CubicOne == <<1, 0, 0>>

\* CubicExtField::zero()
CubicZero == <<0, 0, 0>>

\* The native product of two elements of the cubic extension.
CubicExtField_mul(a, b) ==
    << BaseAdd(BaseMul(a[1], b[1]),
               BaseMul(NONRESIDUE, BaseAdd(BaseMul(a[2], b[3]), BaseMul(a[3], b[2])))),
       BaseAdd(BaseAdd(BaseMul(a[1], b[2]), BaseMul(a[2], b[1])),
               BaseMul(NONRESIDUE, BaseMul(a[3], b[3]))),
       BaseAdd(BaseAdd(BaseMul(a[1], b[3]), BaseMul(a[2], b[2])),
               BaseMul(a[3], b[1])) >>

\* v.inverse() on a native element: None for zero, Some(1 / v) otherwise.
CubicExtField_inverse(v) ==
    IF \E w \in CubicResult : CubicExtField_mul(v, w) = CubicOne
    THEN Some(CHOOSE w \in CubicResult : CubicExtField_mul(v, w) = CubicOne)
    ELSE None

\* Assignment::get for Option<T>: the value, or AssignmentMissing.
Assignment_get(o) == IF o = None THEN Err("AssignmentMissing") ELSE Ok(o[2])

\* A variant of the operator * that takes c2 from the products it already has.
mul_reusing_products(this, other) ==
    LET v0 == Fp_mul(this[1], other[1])
        v1 == Fp_mul(this[2], other[2])
        v2 == Fp_mul(this[3], other[3])
        m0 == Fp_mul(BaseAdd(this[2], this[3]), BaseAdd(other[2], other[3]))
        c0 == BaseAdd(BaseMul(BaseSub(BaseSub(m0.value, v1.value), v2.value),
                              NONRESIDUE), v0.value)
        m1 == Fp_mul(BaseAdd(this[1], this[2]), BaseAdd(other[1], other[2]))
        c1 == BaseAdd(BaseSub(BaseSub(m1.value, v0.value), v1.value),
                      BaseMul(v2.value, NONRESIDUE))
        c2 == BaseAdd(BaseAdd(BaseMul(this[1], other[3]), BaseMul(this[3], other[1])),
                      v1.value)
    IN  [value |-> <<c0, c1, c2>>,
         constraints |-> << v0.constraint, v1.constraint, v2.constraint,
                            m0.constraint, m1.constraint >>]

\* The operator * of two CubicExtVar: the product and the constraints added.
mul(this, other) ==
    LET v0 == Fp_mul(this[1], other[1])
        v1 == Fp_mul(this[2], other[2])
        v2 == Fp_mul(this[3], other[3])
        m0 == Fp_mul(BaseAdd(this[2], this[3]), BaseAdd(other[2], other[3]))
        c0 == BaseAdd(BaseMul(BaseSub(BaseSub(m0.value, v1.value), v2.value),
                              NONRESIDUE), v0.value)
        m1 == Fp_mul(BaseAdd(this[1], this[2]), BaseAdd(other[1], other[2]))
        c1 == BaseAdd(BaseSub(BaseSub(m1.value, v0.value), v1.value),
                      BaseMul(v2.value, NONRESIDUE))
        m2 == Fp_mul(BaseAdd(this[1], this[3]), BaseAdd(other[1], other[3]))
        c2 == BaseSub(BaseAdd(BaseSub(m2.value, v0.value), v1.value), v2.value)
    IN  [value |-> <<c0, c1, c2>>,
         constraints |-> << v0.constraint, v1.constraint, v2.constraint,
                            m0.constraint, m1.constraint, m2.constraint >>]

\* A variant of inverse that enforces self * inverse = 1 on c0 alone.
inverse_one_constraint(self) ==
    LET witness == Assignment_get(CubicExtField_inverse(self))
    IN  IF IsOk(witness)
        THEN [ret |-> Ok(witness[2]),
              constraints |-> <<Fp_mul_equals(self[1], witness[2][1],
                                              BaseMul(self[1], witness[2][1]))>>]
        ELSE [ret |-> witness, constraints |-> <<>>]

\* CubicExtVar::inverse(self): the witness for 1 / self and the constraints
\* of self.mul_equals(&inverse, &one), or the error of the witness's thunk.
inverse(self) ==
    LET witness == Assignment_get(CubicExtField_inverse(self))
    IN  IF IsOk(witness)
        THEN [ret |-> Ok(witness[2]),
              constraints |-> mul_equals(self, witness[2], CubicOne)]
        ELSE [ret |-> witness, constraints |-> <<>>]

\* conditional_enforce_equal of two base field variables: the one constraint
\* (x - y) * condition = 0.
Fp_conditional_enforce_equal(x, y, condition) ==
    <<BaseSub(x, y), IF condition THEN 1 ELSE 0, 0>>

\* CubicExtVar::conditional_enforce_equal(self, other, condition)
conditional_enforce_equal(self, other, condition) ==
    << Fp_conditional_enforce_equal(self[1], other[1], condition),
       Fp_conditional_enforce_equal(self[2], other[2], condition),
       Fp_conditional_enforce_equal(self[3], other[3], condition) >>

\* EqGadget::enforce_equal(self, other)
enforce_equal(self, other) == conditional_enforce_equal(self, other, TRUE)

\* The values of the second factor of a product.
CubicFactors == {<<2, 6, 2>>, <<0, 5, 0>>, <<1, 0, 0>>}

CubicStep(op, ret, added) ==
    [cubic EXCEPT !.op = op, !.ret = ret, !.before = Len(cubic.constraints),
                  !.constraints = cubic.constraints \o added]

NoCubicArena == UNCHANGED <<cs, scopes, last, supplied, handed, borrows, frames, curve, copy>>

\* let y = &x * &other;
CubicMul ==
    /\ cubic.op = "new_witness"
    /\ LET r == mul(cubic.x, cubic.other)
       IN  cubic' = CubicStep("mul", Ok(r.value), r.constraints)
    /\ NoCubicArena

\* x.mul_equals(&other, &result)?;
CubicMulEquals ==
    /\ cubic.op = "new_witness"
    /\ cubic' = CubicStep("mul_equals", Ok(<<>>),
                          mul_equals(cubic.x, cubic.other, cubic.result))
    /\ NoCubicArena

\* let inv = x.inverse()?;
CubicInverse ==
    /\ cubic.op = "new_witness"
    /\ LET r == inverse(cubic.x)
       IN  cubic' = CubicStep("inverse", r.ret, r.constraints)
    /\ NoCubicArena

\* let y = &x * &inv;
CubicMulInverse ==
    /\ cubic.op = "inverse"
    /\ IsOk(cubic.ret)
    /\ LET r == mul(cubic.x, cubic.ret[2])
       IN  cubic' = CubicStep("mul_inverse", Ok(r.value), r.constraints)
    /\ NoCubicArena

\* y.enforce_equal(&CubicExtVar::one())?;
CubicEnforceEqual ==
    /\ cubic.op = "mul_inverse"
    /\ cubic' = CubicStep("enforce_equal", cubic.ret,
                          enforce_equal(cubic.ret[2], CubicOne))
    /\ NoCubicArena

\* SpecCubicOps: one witness x of every value, then a product, a mul_equals,
\* or the round trip x * x.inverse() = 1.
InitCubicOps ==
    /\ cs = ConstraintSystem_new
    /\ scopes = <<>>
    /\ last = Call("new", HandleCS, <<>>, Ok(<<>>), FALSE)
    /\ supplied = {}
    /\ handed = [cs |-> {}, copy |-> {}]
    /\ borrows = [readers |-> 0, writers |-> 0]
    /\ frames = <<>>
    /\ curve = <<>>
    /\ copy = <<>>
    /\ \E x \in CubicResult, other \in CubicFactors :
         cubic = [x |-> x, other |-> other,
                  result |-> CubicExtField_mul(x, other),
                  op |-> "new_witness", ret |-> Ok(x), before |-> 0,
                  constraints |-> <<>>]

NextCubicOps ==
    \/ CubicMul
    \/ CubicMulEquals
    \/ CubicInverse
    \/ CubicMulInverse
    \/ CubicEnforceEqual

SpecCubicOps == InitCubicOps /\ [][NextCubicOps]_vars

----------------------------------------------------------------------------
(* AffineVar<P, F>: a point (x, y) of a twisted Edwards curve               *)
(* a x^2 + y^2 = 1 + d x^2 y^2 over P::BaseField.  A variable is modelled   *)
(* by its value <<x, y>>, a constraint by the values <<l, r, o>> of its     *)
(* linear combinations, satisfied when l * r = o, in a proving mode.        *)

\* P::BaseField of the curves: the integers modulo 47.
TEModulus == 47

\* The width of the limbs that BitIterator walks, most significant bit first.
LimbBits == 8

Fq(x) == x % TEModulus

\* x.inverse() on a native field element: None for zero.
Fq_inverse(x) ==
    IF Fq(x) = 0 THEN None
    ELSE Some(CHOOSE y \in 1 .. (TEModulus - 1) : Fq(x * y) = 1)

\* TEModelParameters: two complete curves over the field.  The first has 44
\* points, cofactor 4 and a subgroup of prime order 11; the second has 60
\* points, cofactor 12 and a subgroup of prime order 5.
TECurves ==
    { [COEFF_A |-> 2, COEFF_D |-> 10, COFACTOR |-> 4, r |-> 11],
      [COEFF_A |-> 2, COEFF_D |-> 19, COFACTOR |-> 12, r |-> 5] }

\* AffineVar::zero(): the affine identity.
AffineVar_zero == <<0, 1>>

\* The native sum of two points (TEProjective + TEProjective, as affine).
TE_add(E, p, q) ==
    LET t == Fq(E.COEFF_D * p[1] * q[1] * p[2] * q[2])
        ix == Fq_inverse(1 + t)
        iy == Fq_inverse(1 - t)
    IN  IF ix = None \/ iy = None THEN <<"undefined">>
        ELSE << Fq((p[1] * q[2] + p[2] * q[1]) * ix[2]),
                Fq((p[2] * q[2] - E.COEFF_A * p[1] * q[1]) * iy[2]) >>

RECURSIVE TE_mul(_, _, _)
\* The native scalar multiple n * p.
TE_mul(E, p, n) ==
    IF n = 0 THEN AffineVar_zero
    ELSE LET m == TE_mul(E, p, n - 1)
         IN  IF m = <<"undefined">> THEN m ELSE TE_add(E, m, p)

\* The inverse of n in P::ScalarField.
Fr_inverse(E, n) == CHOOSE y \in 1 .. (E.r - 1) : (n * y) % E.r = 1

\* BitIterator::new(n): the bits of n, most significant first.
BitIterator(n) == [i \in 1 .. LimbBits |-> (n \div (2 ^ (LimbBits - i))) % 2 = 1]

\* x * y on base field variables: a fresh witness and one constraint.
FqVar_mul(x, y) == [value |-> Fq(x * y), constraint |-> <<x, y, Fq(x * y)>>]

\* A variant of the operator + that divides by 1 + v2 for y3 as well.
AffineVar_add_same_denominator(E, this, other) ==
    LET a == E.COEFF_A
        d == E.COEFF_D
        u == FqVar_mul(Fq(this[1] * (0 - a) + this[2]), Fq(other[1] + other[2]))
        v0 == FqVar_mul(other[2], this[1])
        v1 == FqVar_mul(other[1], this[2])
        v0v1 == FqVar_mul(v0.value, v1.value)
        v2 == Fq(v0v1.value * d)
        t1x == Fq_inverse(1 + v2)
        t1y == Fq_inverse(1 + v2)
        x3 == Fq((v0.value + v1.value) * t1x[2])
        y3 == Fq((u.value + a * v0.value - v1.value) * t1y[2])
        products == <<u.constraint, v0.constraint, v1.constraint, v0v1.constraint>>
        x3_check == <<x3, Fq(v2 + 1), Fq(v0.value + v1.value)>>
        y3_check == <<y3, Fq(v2 + 1), Fq(u.value + a * v0.value - v1.value)>>
    IN  IF t1x = None
        THEN [ret |-> Panic("DivisionByZero"), constraints |-> products]
        ELSE [ret |-> Ok(<<x3, y3>>),
              constraints |-> products \o <<x3_check, y3_check>>]

\* The operator + of two AffineVar of which one is not constant.
AffineVar_add(E, this, other) ==
    LET a == E.COEFF_A
        d == E.COEFF_D
        u == FqVar_mul(Fq(this[1] * (0 - a) + this[2]), Fq(other[1] + other[2]))
        v0 == FqVar_mul(other[2], this[1])
        v1 == FqVar_mul(other[1], this[2])
        v0v1 == FqVar_mul(v0.value, v1.value)
        v2 == Fq(v0v1.value * d)
        t1x == Fq_inverse(1 + v2)
        t1y == Fq_inverse(1 - v2)
        x3 == Fq((v0.value + v1.value) * t1x[2])
        y3 == Fq((u.value + a * v0.value - v1.value) * t1y[2])
        products == <<u.constraint, v0.constraint, v1.constraint, v0v1.constraint>>
        x3_check == <<x3, Fq(v2 + 1), Fq(v0.value + v1.value)>>
        y3_check == <<y3, Fq(0 - (v2 - 1)), Fq(u.value + a * v0.value - v1.value)>>
    IN  IF t1x = None
        THEN [ret |-> Panic("DivisionByZero"), constraints |-> products]
        ELSE IF t1y = None
        THEN [ret |-> Panic("DivisionByZero"),
              constraints |-> products \o <<x3_check>>]
        ELSE [ret |-> Ok(<<x3, y3>>),
              constraints |-> products \o <<x3_check, y3_check>>]

\* AffineVar::double_in_place(&mut self) on a variable that is not constant.
double_in_place(E, self) ==
    LET a == E.COEFF_A
        xy == FqVar_mul(self[1], self[2])
        x2 == FqVar_mul(self[1], self[1])
        y2 == FqVar_mul(self[2], self[2])
        a_x2 == Fq(x2.value * a)
        t1x == Fq_inverse(a * x2.value + y2.value)
        t1y == Fq_inverse(2 - a_x2 - y2.value)
        x3 == Fq(2 * xy.value * t1x[2])
        y3 == Fq((y2.value - a_x2) * t1y[2])
        products == <<xy.constraint, x2.constraint, y2.constraint>>
        x3_check == <<x3, Fq(a_x2 + y2.value), Fq(2 * xy.value)>>
        y3_check == <<y3, Fq(0 - (a_x2 + y2.value) + 2), Fq(y2.value - a_x2)>>
    IN  IF t1x = None
        THEN [ret |-> Err("DivisionByZero"), constraints |-> products]
        ELSE IF t1y = None
        THEN [ret |-> Err("DivisionByZero"),
              constraints |-> products \o <<x3_check>>]
        ELSE [ret |-> Ok(<<x3, y3>>),
              constraints |-> products \o <<x3_check, y3_check>>]

\* AffineVar::negate(&self)
negate(self) == <<Fq(0 - self[1]), self[2]>>

\* AffineVar::is_zero(&self): the value of the Boolean it returns.
is_zero(self) == (self[1] = 0) /\ (self[1] = 1)

\* AffineVar::conditional_enforce_equal(self, other, condition): one
\* constraint (x - y) * condition = 0 for each coordinate.
AffineVar_conditional_enforce_equal(self, other, condition) ==
    << <<Fq(self[1] - other[1]), IF condition THEN 1 ELSE 0, 0>>,
       <<Fq(self[2] - other[2]), IF condition THEN 1 ELSE 0, 0>> >>

\* The allocation modes of AllocVar.
AllocationModes == {"Constant", "Input", "Witness"}

\* AffineVar::new_variable_omit_on_curve_check(cs, f, mode): the coordinates
\* are allocated from the thunk's point; no constraint is added.
new_variable_omit_on_curve_check(f, mode) ==
    IF IsOk(f) THEN [ret |-> Ok(f[2]), constraints |-> <<>>]
    ELSE [ret |-> Err("AssignmentMissing"), constraints |-> <<>>]

\* A variant of new_variable_omit_prime_order_check with a and d exchanged.
omit_prime_order_check_a_d_exchanged(E, f, mode) ==
    LET g == new_variable_omit_on_curve_check(f, mode)
        x2 == FqVar_mul(g.ret[2][1], g.ret[2][1])
        y2 == FqVar_mul(g.ret[2][2], g.ret[2][2])
        d_x2_minus_one == Fq(x2.value * E.COEFF_A - 1)
        a_x2_minus_one == Fq(x2.value * E.COEFF_D - 1)
    IN  IF IsOk(g.ret) /\ mode # "Constant"
        THEN [ret |-> g.ret,
              constraints |-> << x2.constraint, y2.constraint,
                                 <<d_x2_minus_one, y2.value, a_x2_minus_one>> >>]
        ELSE g

\* AffineVar::new_variable_omit_prime_order_check(cs, f, mode)
new_variable_omit_prime_order_check(E, f, mode) ==
    LET g == new_variable_omit_on_curve_check(f, mode)
        x2 == FqVar_mul(g.ret[2][1], g.ret[2][1])
        y2 == FqVar_mul(g.ret[2][2], g.ret[2][2])
        d_x2_minus_one == Fq(x2.value * E.COEFF_D - 1)
        a_x2_minus_one == Fq(x2.value * E.COEFF_A - 1)
    IN  IF IsOk(g.ret) /\ mode # "Constant"
        THEN [ret |-> g.ret,
              constraints |-> << x2.constraint, y2.constraint,
                                 <<d_x2_minus_one, y2.value, a_x2_minus_one>> >>]
        ELSE g

RECURSIVE double_times(_, _, _)
\* for _ in 0..power_of_2 { ge.double_in_place()?; }
double_times(E, ge, n) ==
    IF n = 0 \/ ~IsOk(ge.ret) THEN ge
    ELSE LET doubled == double_in_place(E, ge.ret[2])
         IN  double_times(E, [ret |-> doubled.ret,
                              constraints |-> ge.constraints \o doubled.constraints],
                          n - 1)

RECURSIVE double_and_add(_, _, _, _, _)
\* The loop `for b in iter` of new_variable and of enforce_prime_order from
\* bit i on: acc holds seen_one, result and the constraints added so far.
double_and_add(E, ge, iter, i, acc) ==
    IF i > LimbBits \/ ~IsOk(acc.ret) THEN acc
    ELSE LET b == iter[i]
             doubled == IF acc.seen_one THEN double_in_place(E, acc.ret[2])
                        ELSE [ret |-> acc.ret, constraints |-> <<>>]
             added == IF ~IsOk(doubled.ret) \/ ~b
                         THEN [ret |-> doubled.ret, constraints |-> <<>>]
                      ELSE IF acc.seen_one
                         THEN AffineVar_add(E, doubled.ret[2], ge)
                      ELSE [ret |-> Ok(ge), constraints |-> <<>>]
         IN  double_and_add(E, ge, iter, i + 1,
                 [seen_one |-> acc.seen_one \/ b, ret |-> added.ret,
                  constraints |-> acc.constraints \o doubled.constraints
                                      \o added.constraints])

\* AffineVar::enforce_prime_order(&self)
enforce_prime_order(E, self) ==
    LET looped == double_and_add(E, self, BitIterator(E.r - 1), 1,
                      [seen_one |-> FALSE, ret |-> Ok(AffineVar_zero),
                       constraints |-> <<>>])
    IN  IF IsOk(looped.ret)
        THEN [ret |-> Ok(<<>>),
              constraints |-> looped.constraints \o
                  AffineVar_conditional_enforce_equal(negate(self), looped.ret[2], TRUE)]
        ELSE [ret |-> looped.ret, constraints |-> looped.constraints]

\* AllocVar::new_variable for AffineVar
new_variable(E, f, mode) ==
    IF mode # "Witness" THEN new_variable_omit_prime_order_check(E, f, mode)
    ELSE
    LET power_of_2 == CHOOSE k \in 0 .. LimbBits :
                          /\ E.COFACTOR % (2 ^ k) = 0
                          /\ (E.COFACTOR \div (2 ^ k)) % 2 = 1
        cofactor == E.COFACTOR \div (2 ^ power_of_2)
        weight(n) == Cardinality({i \in 1 .. LimbBits : BitIterator(n)[i]})
        by_cofactor == weight(cofactor) < weight(E.r - 1)
        scalar == IF by_cofactor THEN Fr_inverse(E, E.COFACTOR)
                  ELSE Fr_inverse(E, 2 ^ power_of_2)
        thunk == IF IsOk(f) THEN Ok(TE_mul(E, f[2], scalar)) ELSE f
        ge == double_times(E, new_variable_omit_prime_order_check(E, thunk, mode),
                           power_of_2)
        iter == BitIterator(IF by_cofactor THEN cofactor ELSE E.r - 1)
        looped == IF IsOk(ge.ret)
                  THEN double_and_add(E, ge.ret[2], iter, 1,
                           [seen_one |-> FALSE, ret |-> Ok(AffineVar_zero),
                            constraints |-> <<>>])
                  ELSE [ret |-> ge.ret, constraints |-> <<>>]
        constraints == ge.constraints \o looped.constraints
    IN  IF ~IsOk(looped.ret) THEN [ret |-> looped.ret, constraints |-> constraints]
        ELSE IF by_cofactor THEN [ret |-> looped.ret, constraints |-> constraints]
        ELSE [ret |-> ge.ret,
              constraints |-> constraints \o
                  AffineVar_conditional_enforce_equal(ge.ret[2], ge.ret[2], TRUE)]

\* The point p is on the curve E.
is_on_curve(E, p) ==
    Fq(E.COEFF_A * p[1] * p[1] + p[2] * p[2])
        = Fq(1 + E.COEFF_D * p[1] * p[1] * p[2] * p[2])

\* The values of a pair of coordinates.
Coordinates == (0 .. (TEModulus - 1)) \X (0 .. (TEModulus - 1))

CurveStep(op, mode, ret, added) ==
    [curve EXCEPT !.op = op, !.mode = mode, !.ret = ret,
                  !.before = Len(curve.constraints),
                  !.constraints = curve.constraints \o added]

NoCurveArena == UNCHANGED <<cs, scopes, last, supplied, handed, borrows, frames, cubic, copy>>

\* The allocation that comes next: gadget_a from the thunk value p on a new
\* arena, then gadget_b from q once gadget_a is a witness.
CurveNext ==
    IF curve.op = "new" THEN [thunk |-> Ok(curve.p), first |-> TRUE]
    ELSE [thunk |-> Ok(curve.q), first |-> FALSE]

CurveCanAllocate(mode) ==
    \/ curve.op = "new"
    \/ /\ curve.op \in {"new_variable", "new_variable_omit_prime_order_check"}
       /\ curve.mode = "Witness"
       /\ mode = "Witness"
       /\ IsOk(curve.a)
       /\ curve.b = None

\* The state after the allocation r by the function op.
CurveAllocated(op, mode, r) ==
    IF CurveNext.first
    THEN [CurveStep(op, mode, r.ret, r.constraints) EXCEPT !.a = r.ret]
    ELSE [CurveStep("new_witness_b", mode, r.ret, r.constraints) EXCEPT !.b = r.ret]

\* let gadget_a = AffineVar::new_variable(cs, || Ok(p), mode), and
\* let gadget_b = GG::new_witness(cs, || Ok(q)) after it.
CurveNewVariable(mode) ==
    /\ CurveCanAllocate(mode)
    /\ is_on_curve(curve.E, CurveNext.thunk[2])
    /\ curve' = CurveAllocated("new_variable", mode,
                               new_variable(curve.E, CurveNext.thunk, mode))
    /\ NoCurveArena

\* AffineVar::new_variable_omit_prime_order_check(cs, || Ok(p), mode), for
\* gadget_a and then for gadget_b.
CurveOmitPrimeOrderCheck(mode) ==
    /\ CurveCanAllocate(mode)
    /\ curve' = CurveAllocated("new_variable_omit_prime_order_check", mode,
                    new_variable_omit_prime_order_check(curve.E, CurveNext.thunk, mode))
    /\ NoCurveArena

\* let gadget_a = AffineVar::new_variable_omit_on_curve_check(cs, || Ok(p), mode)
CurveOmitOnCurveCheck(mode) ==
    /\ curve.op = "new"
    /\ LET r == new_variable_omit_on_curve_check(Ok(curve.p), mode)
       IN  curve' = [CurveStep("new_variable_omit_on_curve_check", mode,
                               r.ret, r.constraints)
                        EXCEPT !.a = r.ret]
    /\ NoCurveArena

\* let gadget_ab = &gadget_a + &gadget_b;
CurveAdd ==
    /\ curve.op = "new_witness_b"
    /\ IsOk(curve.b)
    /\ LET r == AffineVar_add(curve.E, curve.a[2], curve.b[2])
       IN  curve' = [CurveStep("add", "Witness", r.ret, r.constraints)
                        EXCEPT !.ab = r.ret]
    /\ NoCurveArena

\* let gadget_ba = &gadget_b + &gadget_a; gadget_ba.enforce_equal(&gadget_ab)?;
CurveAddCommuted ==
    /\ curve.op = "add"
    /\ IsOk(curve.ab)
    /\ LET r == AffineVar_add(curve.E, curve.b[2], curve.a[2])
       IN  curve' = CurveStep("add_commuted", "Witness", r.ret,
                        r.constraints \o
                        (IF IsOk(r.ret)
                         THEN AffineVar_conditional_enforce_equal(r.ret[2], curve.ab[2], TRUE)
                         ELSE <<>>))
    /\ NoCurveArena

\* gadget_a.enforce_prime_order()?; on a variable allocated without the check
CurveEnforcePrimeOrder ==
    /\ curve.op = "new_variable_omit_prime_order_check"
    /\ curve.mode = "Witness"
    /\ is_on_curve(curve.E, curve.p)
    /\ LET r == enforce_prime_order(curve.E, curve.a[2])
       IN  curve' = CurveStep("enforce_prime_order", "Witness", r.ret, r.constraints)
    /\ NoCurveArena

\* gadget_a.is_zero()? on a variable whose coordinates were allocated as they
\* are; in Constant mode (0, 1) is AffineVar::zero().
CurveIsZero ==
    /\ curve.op = "new_variable_omit_on_curve_check"
    /\ IsOk(curve.a)
    /\ curve' = CurveStep("is_zero", curve.mode, Ok(is_zero(curve.a[2])), <<>>)
    /\ NoCurveArena

\* SpecCurve: a new arena, a curve, and the values the thunks of the two
\* allocations will return: a pair of coordinates p and, when p is on the
\* curve, a point q of the curve.  Nothing is allocated yet.
InitCurve ==
    /\ cs = ConstraintSystem_new
    /\ scopes = <<>>
    /\ last = Call("new", HandleCS, <<>>, Ok(<<>>), FALSE)
    /\ supplied = {}
    /\ handed = [cs |-> {}, copy |-> {}]
    /\ borrows = [readers |-> 0, writers |-> 0]
    /\ frames = <<>>
    /\ cubic = <<>>
    /\ copy = <<>>
    /\ \E E \in TECurves, p \in Coordinates :
         \E q \in IF is_on_curve(E, p)
                  THEN {c \in Coordinates : is_on_curve(E, c)}
                  ELSE {AffineVar_zero} :
            curve = [E |-> E, p |-> p, q |-> q, a |-> None, b |-> None,
                     op |-> "new", mode |-> "Witness", ret |-> Ok(<<>>),
                     ab |-> None, before |-> 0, constraints |-> <<>>]

NextCurve ==
    \/ \E mode \in AllocationModes : CurveNewVariable(mode)
    \/ \E mode \in AllocationModes : CurveOmitPrimeOrderCheck(mode)
    \/ \E mode \in AllocationModes : CurveOmitOnCurveCheck(mode)
    \/ CurveAdd
    \/ CurveAddCommuted
    \/ CurveEnforcePrimeOrder
    \/ CurveIsZero

SpecCurve == InitCurve /\ [][NextCurve]_vars

----------------------------------------------------------------------------
(* The value of a variable and of a linear combination on the current      *)
(* assignments, computed afresh: no cache, None when an assignment is      *)
(* missing.  This is the meaning the properties below compare the code to. *)

RECURSIVE FreshValue(_, _), FreshLcValue(_, _, _)

FreshValue(c, var) ==
    CASE var[1] = "One" -> Some(1)
      [] var[1] = "Zero" -> Some(0)
      [] var[1] = "Instance" ->
            IF var[2] + 1 \in DOMAIN c.instance_assignment
            THEN Some(c.instance_assignment[var[2] + 1]) ELSE None
      [] var[1] = "Witness" ->
            IF var[2] + 1 \in DOMAIN c.witness_assignment
            THEN Some(c.witness_assignment[var[2] + 1]) ELSE None
      [] OTHER ->
            IF var[2] \in DOMAIN c.lc_map
            THEN FreshLcValue(c, c.lc_map[var[2]], 1) ELSE None

FreshLcValue(c, lc, i) ==
    IF i > Len(lc) THEN Some(0)
    ELSE LET v == FreshValue(c, lc[i][2])
             rest == FreshLcValue(c, lc, i + 1)
         IN  IF IsSome(v) /\ IsSome(rest)
             THEN Some(FAdd(FMul(lc[i][1], v[2]), rest[2]))
             ELSE None

\* The values of a_i, b_i, c_i of constraint i (0-based), when it is recorded.
Recorded(c, i) ==
    /\ i + 1 \in DOMAIN c.a_constraints
    /\ i + 1 \in DOMAIN c.b_constraints
    /\ i + 1 \in DOMAIN c.c_constraints

ValueA(c, i) == FreshValue(c, SymbolicLc(c.a_constraints[i + 1]))

ValueB(c, i) == FreshValue(c, SymbolicLc(c.b_constraints[i + 1]))

ValueC(c, i) == FreshValue(c, SymbolicLc(c.c_constraints[i + 1]))

Evaluable(c, i) ==
    Recorded(c, i) /\ IsSome(ValueA(c, i)) /\ IsSome(ValueB(c, i))
                   /\ IsSome(ValueC(c, i))

\* a_i * b_i = c_i, all three values existing.
Holds(c, i) ==
    Evaluable(c, i) /\ FMul(ValueA(c, i)[2], ValueB(c, i)[2]) = ValueC(c, i)[2]

\* a_i * b_i # c_i, all three values existing.
Violated(c, i) ==
    Evaluable(c, i) /\ FMul(ValueA(c, i)[2], ValueB(c, i)[2]) # ValueC(c, i)[2]

Constraints(c) == 0 .. (c.num_constraints - 1)

\* The matrices an empty arena has.
EmptyMatrices ==
    [ num_instance_variables |-> 1, num_witness_variables |-> 0,
      num_constraints |-> 0,
      a_num_non_zero |-> 0, b_num_non_zero |-> 0, c_num_non_zero |-> 0,
      a |-> <<>>, b |-> <<>>, c |-> <<>> ]

\* The column map of the specification: One in column 0, Instance(i) in
\* column i, Witness(j) in column num_instance_variables + j.
Column(c, var) ==
    CASE var[1] = "One" -> 0
      [] var[1] = "Instance" -> var[2]
      [] OTHER -> c.num_instance_variables + var[2]

\* The row the column map gives for a linear combination without symbolic terms.
ColumnRow(c, lc) ==
    LET kept == SelectSeq(lc, LAMBDA t : t[1] # 0)
    IN  [i \in DOMAIN kept |-> <<kept[i][1], Column(c, kept[i][2])>>]

ColumnRows(c, indices) ==
    [i \in DOMAIN indices |-> ColumnRow(c, c.lc_map[indices[i]])]

ColumnsInRange(c, rows) ==
    \A i \in DOMAIN rows : \A k \in DOMAIN rows[i] :
        rows[i][k][2] < c.num_instance_variables + c.num_witness_variables

----------------------------------------------------------------------------
(* The claims.                                                             *)

\* C1: to_matrices() returns the matrices, not None, in every mode in which
\* should_construct_matrices() is true (Setup and Prove{construct_matrices:
\* true}); on a new arena it returns the empty matrices with
\* num_instance_variables = 1.
C1_MatricesWhenConstructed ==
    /\ should_construct_matrices(cs) => IsSome(to_matrices(cs))
    /\ cs = ConstraintSystem_new => to_matrices(cs) = Some(EmptyMatrices)

\* C2: whenever to_matrices() returns matrices, in an arena whose mode was
\* fixed before the first call, each of a, b and c has exactly num_constraints
\* rows.
C2_RowsPerConstraint ==
    IsSome(to_matrices(cs)) =>
        LET m == to_matrices(cs)[2]
        IN  /\ Len(m.a) = m.num_constraints
            /\ Len(m.b) = m.num_constraints
            /\ Len(m.c) = m.num_constraints

\* C3: every row to_matrices() returns places a term on One in column 0, on
\* Instance(i) in column i and on Witness(j) in column
\* num_instance_variables + j, so every column index is below
\* num_instance_variables + num_witness_variables.
C3_ColumnMap ==
    IsSome(to_matrices(cs)) =>
        LET m == to_matrices(cs)[2]
        IN  /\ m.a = ColumnRows(cs, cs.a_constraints)
            /\ m.b = ColumnRows(cs, cs.b_constraints)
            /\ m.c = ColumnRows(cs, cs.c_constraints)
            /\ ColumnsInRange(cs, m.a)
            /\ ColumnsInRange(cs, m.b)
            /\ ColumnsInRange(cs, m.c)

\* C4: in a proving mode is_satisfied() returns Some(true) if and only if for
\* every constraint the values of a_i, b_i, c_i exist and a_i * b_i = c_i.
C4_SatisfiedIffAllHold ==
    ~is_in_setup_mode(cs) =>
        (is_satisfied(cs).ret = Some(TRUE)
            <=> \A i \in Constraints(cs) : Holds(cs, i))

\* C5: in a proving mode, when some constraint is violated
\* which_is_unsatisfied() returns the name of the first violated constraint and
\* is_satisfied() returns Some(false); when none is violated
\* which_is_unsatisfied() returns None.
C5_FirstViolatedConstraint ==
    ~is_in_setup_mode(cs) =>
        IF \E i \in Constraints(cs) : Violated(cs, i)
        THEN LET first == CHOOSE i \in Constraints(cs) :
                            /\ Violated(cs, i)
                            /\ \A j \in Constraints(cs) : Violated(cs, j) => i <= j
             IN  /\ which_is_unsatisfied(cs).ret = Some(cs.constraint_names[first + 1])
                 /\ is_satisfied(cs).ret = Some(FALSE)
        ELSE which_is_unsatisfied(cs).ret = None

\* C6: with an empty namespace stack the k-th constraint added by
\* enforce_constraint is recorded under the name to_string(k); the violated
\* single constraint of such an arena is reported as "0".
C6_UnnamedConstraintName ==
    (/\ last.op = "enforce_constraint"
     /\ last.handle = HandleCS
     /\ cs.namespace = <<>>) =>
        /\ cs.constraint_names[cs.num_constraints] = to_string(cs.num_constraints - 1)
        /\ (cs.num_constraints = 1 /\ Violated(cs, 0)) =>
              which_is_unsatisfied(cs).ret = Some("0")

\* C7: the name recorded for a constraint is the namespace stack at the time
\* of the call joined with "/", then "/", then the local name (the given name,
\* or to_string(num_constraints) for enforce_constraint); no call changes a
\* name recorded earlier.
C7_NameFidelity ==
    [][ LET old == Len(cs.constraint_names)
            prefix == join(cs.namespace, "/") \o "/"
        IN  /\ Len(cs'.constraint_names) >= old
            /\ SubSeq(cs'.constraint_names, 1, old) = cs.constraint_names
            /\ Len(cs'.constraint_names) # old =>
                  /\ Len(cs'.constraint_names) = old + 1
                  /\ last'.op \in {"enforce_constraint", "enforce_named_constraint"}
                  /\ last'.op = "enforce_constraint" =>
                        cs'.constraint_names[old + 1]
                            = prefix \o to_string(cs.num_constraints)
                  /\ last'.op = "enforce_named_constraint" =>
                        cs'.constraint_names[old + 1] = prefix \o last'.args[1]
      ]_vars

\* Scenario 4: "outer", then "inner", one unnamed constraint, both left.
C7_Witness ==
    /\ cs.num_constraints = 1
    /\ cs.constraint_names = <<"outer/inner/0">>
    /\ cs.namespace = <<>>
    /\ scopes = <<>>

\* C8: releasing a scope object obtained from ns(name) on the live handle, by
\* drop or by leave_namespace, pops the namespace stack exactly once: the
\* stack after the release is the stack before the ns(name) call.
C8_ScopeLeavesOnce ==
    [][ (/\ Len(scopes') = Len(scopes) - 1
         /\ scopes[Len(scopes)].inner = HandleCS) =>
            /\ Len(cs.namespace) > 0
            /\ cs'.namespace = SubSeq(cs.namespace, 1, Len(cs.namespace) - 1)
      ]_vars

\* C9: on the None handle new_input_variable, new_witness_variable, new_lc,
\* enforce_constraint and enforce_named_constraint fail with MissingCS.
C9_NoneHandleMissingCS ==
    (/\ last.handle = HandleNone
     /\ last.op \in {"new_input_variable", "new_witness_variable", "new_lc",
                     "enforce_constraint", "enforce_named_constraint"}) =>
        last.ret = Err(MissingCS)

\* C10: an allocation that succeeds returns Instance(i) (Witness(i)) with i
\* the counter before the call, and every allocation advances the counter by
\* one; in Setup the thunk is not called, nothing is appended and the call
\* succeeds whatever the thunk would do; in a proving mode the thunk's value
\* is appended to the assignment.
C10_Allocation ==
    [][ /\ cs'.num_instance_variables # cs.num_instance_variables =>
            /\ cs'.num_instance_variables = cs.num_instance_variables + 1
            /\ last'.op = "new_input_variable"
            /\ IsOk(last'.ret) =>
                  last'.ret = Ok(Instance(cs.num_instance_variables))
            /\ is_in_setup_mode(cs) =>
                  /\ IsOk(last'.ret)
                  /\ ~last'.called_f
                  /\ cs'.instance_assignment = cs.instance_assignment
            /\ (~is_in_setup_mode(cs) /\ IsOk(last'.args[1])) =>
                  /\ IsOk(last'.ret)
                  /\ cs'.instance_assignment
                        = Append(cs.instance_assignment, last'.args[1][2])
        /\ cs'.num_witness_variables # cs.num_witness_variables =>
            /\ cs'.num_witness_variables = cs.num_witness_variables + 1
            /\ last'.op = "new_witness_variable"
            /\ IsOk(last'.ret) =>
                  last'.ret = Ok(Witness(cs.num_witness_variables))
            /\ is_in_setup_mode(cs) =>
                  /\ IsOk(last'.ret)
                  /\ ~last'.called_f
                  /\ cs'.witness_assignment = cs.witness_assignment
            /\ (~is_in_setup_mode(cs) /\ IsOk(last'.args[1])) =>
                  /\ IsOk(last'.ret)
                  /\ cs'.witness_assignment
                        = Append(cs.witness_assignment, last'.args[1][2])
      ]_vars

\* In Setup a thunk that would fail: the second witness is Witness(1), and
\* the assignments are as the arena was made.
C10_Witness ==
    /\ is_in_setup_mode(cs)
    /\ last.op = "new_witness_variable"
    /\ last.args = <<Err(AssignmentMissing)>>
    /\ last.ret = Ok(Witness(1))
    /\ cs.num_witness_variables = 2
    /\ cs.witness_assignment = <<>>

\* C11: in a proving mode, for every variable returned by an allocation whose
\* thunk returned a value, assigned_value of the variable, when it is present,
\* is that value.
C11_SuppliedValueRead ==
    ~is_in_setup_mode(cs) =>
        \A p \in supplied :
            LET v == assigned_value(cs, p[1]).ret
            IN  IsSome(v) => v = Some(p[2])

\* C12: the evaluation cache cannot be observed: in every state
\* assigned_value(SymbolicLc(k)) is the sum of coeff * value over the terms of
\* the linear combination k, computed afresh on the current assignments.
C12_CacheInvisible ==
    \A k \in DOMAIN cs.lc_map :
        assigned_value(cs, SymbolicLc(k)).ret = FreshValue(cs, SymbolicLc(k))

\* C13: in an arena whose mode is fixed from construction, a_constraints,
\* b_constraints, c_constraints and constraint_names all have num_constraints
\* entries when matrices are being constructed; otherwise the three index
\* vectors are empty and constraint_names has num_constraints entries; every
\* enforced constraint advances num_constraints by one.
C13_ConstraintVectors ==
    [][ /\ Len(cs'.constraint_names) = cs'.num_constraints
        /\ IF should_construct_matrices(cs')
           THEN /\ Len(cs'.a_constraints) = cs'.num_constraints
                /\ Len(cs'.b_constraints) = cs'.num_constraints
                /\ Len(cs'.c_constraints) = cs'.num_constraints
           ELSE /\ cs'.a_constraints = <<>>
                /\ cs'.b_constraints = <<>>
                /\ cs'.c_constraints = <<>>
        /\ (\E t \in ConstraintInputs(handed.cs) :
              EnforceConstraint(HandleCS, LcOf(t[1]), LcOf(t[2]), LcOf(t[3])))
              => cs'.num_constraints = cs.num_constraints + 1
      ]_vars

\* Two constraints enforced without matrices: counted and named, not recorded.
C13_Witness ==
    /\ cs.mode = Prove(FALSE)
    /\ last.op = "enforce_constraint"
    /\ cs.num_constraints = 2
    /\ Len(cs.constraint_names) = 2
    /\ cs.a_constraints = <<>>

\* C14: every SymbolicLc(j) term of lc_map[k] has j registered in lc_map and
\* j < k, whatever linear combination the caller passed to new_lc or to
\* enforce_constraint; every index in a_constraints, b_constraints and
\* c_constraints is a key of lc_map.
C14_SymbolicReferences ==
    /\ \A k \in DOMAIN cs.lc_map : \A i \in DOMAIN cs.lc_map[k] :
          LET var == cs.lc_map[k][i][2]
          IN  is_lc(var) => var[2] \in DOMAIN cs.lc_map /\ var[2] < k
    /\ \A i \in DOMAIN cs.a_constraints : cs.a_constraints[i] \in DOMAIN cs.lc_map
    /\ \A i \in DOMAIN cs.b_constraints : cs.b_constraints[i] \in DOMAIN cs.lc_map
    /\ \A i \in DOMAIN cs.c_constraints : cs.c_constraints[i] \in DOMAIN cs.lc_map

\* A linear combination as compactify leaves it: one term per variable, no
\* zero coefficient.
Compact(lc) ==
    /\ \A i \in DOMAIN lc : lc[i][1] # 0
    /\ \A i, j \in DOMAIN lc : lc[i][2] = lc[j][2] => i = j

\* Every symbolic reference of the arena c points to an earlier index.
ReferencesEarlier(c) ==
    \A k \in DOMAIN c.lc_map : \A i \in DOMAIN c.lc_map[k] :
        is_lc(c.lc_map[k][i][2]) =>
            c.lc_map[k][i][2][2] \in DOMAIN c.lc_map /\ c.lc_map[k][i][2][2] < k

\* C15: after inline_all_lcs on an arena whose symbolic references point to
\* earlier indices, no linear combination of lc_map has a SymbolicLc term, the
\* keys of lc_map are the same, and every linear combination is compactified.
C15_InlinedConcrete ==
    [][ (ReferencesEarlier(cs) /\ InlineAllLcs(HandleCS)) =>
            /\ last'.ret = Ok(<<>>)
            /\ DOMAIN cs'.lc_map = DOMAIN cs.lc_map
            /\ \A k \in DOMAIN cs'.lc_map :
                  /\ \A i \in DOMAIN cs'.lc_map[k] : ~is_lc(cs'.lc_map[k][i][2])
                  /\ Compact(cs'.lc_map[k])
      ]_vars

\* l0 = w, l1 = 2 w + l0, and a constraint on l1 (registered as l2 = l1, two
\* references deep) after inlining: l1 and l2 are both 3 w.
C15_Witness ==
    /\ last.op = "inline_all_lcs"
    /\ 2 \in DOMAIN cs.lc_map
    /\ cs.lc_map[1] = << <<3, Witness(0)>> >>
    /\ cs.lc_map[2] = << <<3, Witness(0)>> >>

\* C16: inline_all_lcs is idempotent: a second call right after a first one
\* leaves lc_map and every other field of the arena as the first call left
\* them.
C16_InlineIdempotent ==
    LET first == inline_all_lcs(cs)
        second == inline_all_lcs(first.cs)
    IN  IsOk(first.ret) => (IsOk(second.ret) /\ second.cs = first.cs)

\* After inlining l0 = w, l1 = 16 w + l0 (empty once inlined) and a
\* constraint on l1; inlining this arena again changes nothing.
C16_Witness ==
    /\ last.op = "inline_all_lcs"
    /\ cs.num_constraints > 0
    /\ 1 \in DOMAIN cs.lc_map
    /\ cs.lc_map[1] = <<>>
    /\ inline_all_lcs(cs).cs = cs

\* C17: inline_all_lcs preserves meaning: the value of every linear
\* combination on the current assignment is the same before and after the
\* call, and is_satisfied() and which_is_unsatisfied() return the same results
\* before and after it.
C17_InlinePreservesMeaning ==
    [][ (ReferencesEarlier(cs) /\ InlineAllLcs(HandleCS)) =>
            /\ \A k \in DOMAIN cs.lc_map :
                  FreshValue(cs', SymbolicLc(k)) = FreshValue(cs, SymbolicLc(k))
            /\ is_satisfied(cs').ret = is_satisfied(cs).ret
            /\ which_is_unsatisfied(cs').ret = which_is_unsatisfied(cs).ret
      ]_vars

\* C18: whenever the mode is Setup, set on a new arena before any allocation,
\* instance_assignment and witness_assignment are both empty, and they stay
\* empty whatever is allocated.
C18_SetupAssignmentsEmpty ==
    is_in_setup_mode(cs) =>
        /\ cs.instance_assignment = <<>>
        /\ cs.witness_assignment = <<>>

\* C19: shared borrows of the arena coexist; a request for an exclusive
\* borrow made while any borrow is outstanding, by any method of the handle
\* that changes the arena or by the release of a scope object that has to
\* leave its namespace, also from inside the thunk of an allocation, fails
\* with a panic (or with an abort, when the panic is raised again while it
\* unwinds) and changes nothing in the arena; an exclusive borrow never
\* coexists with another borrow.
C19_BorrowDiscipline ==
    [][ /\ borrows'.writers <= 1
        /\ borrows'.writers = 1 => borrows'.readers = 0
        /\ (Borrow(HandleCS) /\ borrows.writers = 0) =>
              borrows'.readers = borrows.readers + 1
        /\ (/\ borrows.readers + borrows.writers > 0
            /\ last' # last
            /\ \/ last'.op \in ExclusiveOps /\ last'.handle = HandleCS
               \/ \E i \in DOMAIN scopes :
                     /\ scopes[i] = [inner |-> HandleCS, entered_ns |-> TRUE]
                     /\ DropNamespace(i)
            /\ ~(\E f \in Thunks(InstanceValues) : ThunkReturns(f))) =>
              /\ IsPanic(last'.ret) \/ last'.ret = Abort
              /\ cs' = cs
              /\ supplied' = supplied
      ]_vars

\* The thunk of the first witness allocation registered a linear combination
\* on the same arena: the call panicked, the allocation did not push a value.
C19_Witness ==
    /\ last.op = "new_lc"
    /\ IsPanic(last.ret)
    /\ frames = <<>>
    /\ borrows = [readers |-> 0, writers |-> 0]
    /\ cs.num_witness_variables = 1
    /\ cs.witness_assignment = <<>>
    /\ cs.lc_map = <<>>

\* The product of a and b in the cubic extension, X^3 = NONRESIDUE.
CubicProduct(a, b) ==
    << BaseAdd(BaseMul(a[1], b[1]),
               BaseMul(NONRESIDUE, BaseAdd(BaseMul(a[2], b[3]), BaseMul(a[3], b[2])))),
       BaseAdd(BaseAdd(BaseMul(a[1], b[2]), BaseMul(a[2], b[1])),
               BaseMul(NONRESIDUE, BaseMul(a[3], b[3]))),
       BaseAdd(BaseAdd(BaseMul(a[1], b[3]), BaseMul(a[2], b[2])),
               BaseMul(a[3], b[1])) >>

ConstraintsSatisfied(constraints) ==
    \A i \in DOMAIN constraints :
        BaseMul(constraints[i][1], constraints[i][2]) = constraints[i][3]

\* C20: the six constraints added by a.mul_equals(b, r) are all satisfied if
\* and only if r = a * b in the cubic extension.
C20_MulEquals ==
    cubic.constraints # <<>> =>
        /\ Len(cubic.constraints) = 6
        /\ ConstraintsSatisfied(cubic.constraints)
              <=> cubic.r = CubicProduct(cubic.a, cubic.b)

\* (1 + 3 X + X^2) (2 + 6 X + 2 X^2) = 3 + 4 X + X^2, all six constraints hold.
C20_Witness ==
    /\ cubic.constraints # <<>>
    /\ cubic.a = <<1, 3, 1>>
    /\ cubic.b = <<2, 6, 2>>
    /\ cubic.r = CubicProduct(cubic.a, cubic.b)
    /\ ConstraintsSatisfied(cubic.constraints)

\* The constraints added by the last operation on cubic extension variables.
Added == SubSeq(cubic.constraints, cubic.before + 1, Len(cubic.constraints))

\* C21: one multiplication of two cubic extension variables, by the operator *
\* or by mul_equals, adds exactly six constraints: the first three are
\* v0 = a0 * b0, v1 = a1 * b1, v2 = a2 * b2, the other three the auxiliary
\* products (a1 + a2)(b1 + b2), (a0 + a1)(b0 + b1), (a0 + a2)(b0 + b2), the
\* first of them with beta folded into its left factor by mul_equals.
C21_SixConstraints ==
    cubic.op \in {"mul", "mul_equals"} =>
        LET a == cubic.x
            b == cubic.other
            nr == IF cubic.op = "mul_equals" THEN NONRESIDUE ELSE 1
        IN  /\ Len(Added) = 6
            /\ \A i \in 1 .. 3 : Added[i] = <<a[i], b[i], BaseMul(a[i], b[i])>>
            /\ Added[4][1] = BaseMul(nr, BaseAdd(a[2], a[3]))
            /\ Added[4][2] = BaseAdd(b[2], b[3])
            /\ Added[5][1] = BaseAdd(a[1], a[2])
            /\ Added[5][2] = BaseAdd(b[1], b[2])
            /\ Added[6][1] = BaseAdd(a[1], a[3])
            /\ Added[6][2] = BaseAdd(b[1], b[3])
            /\ cubic.op = "mul" => /\ cubic.ret = Ok(CubicExtField_mul(a, b))
                                   /\ ConstraintsSatisfied(Added)

\* The product (1 + 3 X + X^2) (2 + 6 X + 2 X^2) has added its six constraints.
C21_Witness ==
    /\ cubic.op = "mul"
    /\ cubic.x = <<1, 3, 1>>
    /\ cubic.other = <<2, 6, 2>>
    /\ cubic.ret = Ok(<<3, 4, 1>>)
    /\ Len(cubic.constraints) = 6

\* C22: allocating a nonzero witness x, computing y = x * x.inverse() and
\* enforcing y = 1 leaves every constraint satisfied and has added exactly
\* seven constraints in total.
C22_RoundTripSeven ==
    (cubic.op = "enforce_equal" /\ cubic.x # CubicZero) =>
        /\ ConstraintsSatisfied(cubic.constraints)
        /\ Len(cubic.constraints) = 7

\* C22 as amended: the round trip leaves every constraint satisfied and has
\* added fifteen constraints: six by the mul_equals of inverse(), six by the
\* product and three by the equality of the coordinates.
C22_RoundTripFifteen ==
    (cubic.op = "enforce_equal" /\ cubic.x # CubicZero) =>
        /\ ConstraintsSatisfied(cubic.constraints)
        /\ Len(cubic.constraints) = 15
        /\ Len(Added) = 3
        /\ cubic.ret = Ok(CubicOne)

\* The round trip from x = 2 + X is complete.
C22_Witness ==
    /\ cubic.op = "enforce_equal"
    /\ cubic.x = <<2, 1, 0>>
    /\ Len(cubic.constraints) = 15
    /\ ConstraintsSatisfied(cubic.constraints)

\* C23: inverse() on a variable whose value is zero fails with DivisionByZero;
\* on a nonzero value it returns a witness inv and adds constraints that are
\* satisfied, inv being such that self * inv = 1.
C23_InverseOfZero ==
    cubic.op = "inverse" =>
        IF cubic.x = CubicZero
        THEN cubic.ret = Err("DivisionByZero")
        ELSE /\ IsOk(cubic.ret)
             /\ CubicExtField_mul(cubic.x, cubic.ret[2]) = CubicOne
             /\ ConstraintsSatisfied(Added)

\* Every constraint added on the curve's base field is satisfied.
CurveSatisfied(constraints) ==
    \A i \in DOMAIN constraints :
        Fq(constraints[i][1] * constraints[i][2]) = constraints[i][3]

\* The constraints added by the last operation on AffineVar.
CurveAdded == SubSeq(curve.constraints, curve.before + 1, Len(curve.constraints))

\* The point p is in the subgroup of prime order r.
InPrimeOrderSubgroup(E, p) == TE_mul(E, p, E.r) = AffineVar_zero

\* C24: for two points P, Q of a complete twisted Edwards curve allocated as
\* witnesses, P + Q has the value of the native sum, its last two constraints
\* are x3 * (1 + d x1 x2 y1 y2) = x1 y2 + x2 y1 and
\* y3 * (1 - d x1 x2 y1 y2) = y1 y2 - a x1 x2, the arena is satisfied, and it
\* stays satisfied after Q + P is enforced equal to P + Q.
C24_Addition ==
    (/\ curve.op \in {"add", "add_commuted"}
     /\ is_on_curve(curve.E, curve.a[2])
     /\ is_on_curve(curve.E, curve.b[2])) =>
        LET E == curve.E
            P1 == curve.a[2]
            P2 == curve.b[2]
            t == Fq(E.COEFF_D * P1[1] * P2[1] * P1[2] * P2[2])
        IN  /\ curve.op = "add" =>
                  /\ curve.ret = Ok(TE_add(E, P1, P2))
                  /\ Len(CurveAdded) = 6
                  /\ CurveAdded[5] = << curve.ret[2][1], Fq(1 + t),
                                        Fq(P1[1] * P2[2] + P2[1] * P1[2]) >>
                  /\ CurveAdded[6] = << curve.ret[2][2], Fq(1 - t),
                                        Fq(P1[2] * P2[2] - E.COEFF_A * P1[1] * P2[1]) >>
                  /\ CurveSatisfied(curve.constraints)
            /\ curve.op = "add_commuted" =>
                  /\ curve.ret = curve.ab
                  /\ curve.ret = Ok(TE_add(E, P2, P1))
                  /\ CurveSatisfied(curve.constraints)

\* Two different points other than the identity, both allocated by
\* new_witness, have been added both ways: 13 constraints for each
\* allocation on the curve of cofactor 4, 6 for each sum, 2 for the equality.
C24_Witness ==
    /\ curve.op = "add_commuted"
    /\ curve.a # curve.b
    /\ curve.a[2][1] # 0
    /\ curve.b[2][1] # 0
    /\ curve.ret = curve.ab
    /\ curve.ret[2] \notin {curve.a[2], curve.b[2], AffineVar_zero}
    /\ Len(curve.constraints) = 40
    /\ CurveSatisfied(curve.constraints)

\* C25: allocating a point in Witness mode always enforces the prime order
\* subgroup: whenever the point handed back is not in the subgroup the
\* constraints added are not all satisfied, under the cofactor strategy and
\* under the order check alike; Constant and Input modes add no more than
\* new_variable_omit_prime_order_check does.
C25_PrimeOrderEnforced ==
    (curve.op = "new_variable" /\ IsOk(curve.ret)) =>
        IF curve.mode = "Witness"
        THEN ~InPrimeOrderSubgroup(curve.E, curve.ret[2])
                 => ~CurveSatisfied(curve.constraints)
        ELSE CurveAdded =
                 new_variable_omit_prime_order_check(curve.E, Ok(curve.p),
                                                     curve.mode).constraints

\* C26: in Input or Witness mode the constraints added by
\* new_variable_omit_prime_order_check are all satisfied if and only if the
\* coordinates satisfy a x^2 + y^2 = 1 + d x^2 y^2, the last of them being
\* (d x^2 - 1) * y^2 = a x^2 - 1; in Constant mode, and from
\* new_variable_omit_on_curve_check in every mode, no constraint is added.
C26_OnCurveCheck ==
    LET E == curve.E
        x2 == Fq(curve.p[1] * curve.p[1])
        y2 == Fq(curve.p[2] * curve.p[2])
    IN  /\ curve.op = "new_variable_omit_prime_order_check" =>
              /\ curve.ret = Ok(curve.p)
              /\ IF curve.mode = "Constant" THEN CurveAdded = <<>>
                 ELSE /\ Len(CurveAdded) = 3
                      /\ CurveAdded[3] = << Fq(E.COEFF_D * x2 - 1), y2,
                                            Fq(E.COEFF_A * x2 - 1) >>
                      /\ CurveSatisfied(CurveAdded) <=> is_on_curve(E, curve.p)
        /\ curve.op = "new_variable_omit_on_curve_check" =>
              /\ curve.ret = Ok(curve.p)
              /\ CurveAdded = <<>>

\* An off-curve point allocated as a witness leaves the arena unsatisfied.
C26_Witness ==
    /\ curve.op = "new_variable_omit_prime_order_check"
    /\ curve.mode = "Witness"
    /\ curve.p = <<3, 5>>
    /\ ~is_on_curve(curve.E, curve.p)
    /\ Len(curve.constraints) = 3
    /\ ~CurveSatisfied(curve.constraints)

\* C30: is_zero() is true if and only if the point is the affine identity
\* (x = 0 and y = 1); in particular it is true of AffineVar::zero().
C30_IsZero ==
    curve.op = "is_zero" =>
        curve.ret = Ok(curve.a[2][1] = 0 /\ curve.a[2][2] = 1)

\* The counters of the arena c are the lengths of its assignment vectors.
CountersMatch(c) ==
    /\ c.num_instance_variables = Len(c.instance_assignment)
    /\ c.num_witness_variables = Len(c.witness_assignment)

\* C27: in a proving mode an allocation whose thunk fails leaves the arena
\* unchanged, and every allocation keeps num_instance_variables =
\* |instance_assignment| and num_witness_variables = |witness_assignment|, so
\* that the next index handed out is the position of its value.
C27_FailedAllocationKeepsArena ==
    [][ (/\ \/ \E f \in Thunks(InstanceValues) : NewInputVariable(HandleCS, f)
            \/ \E f \in Thunks(WitnessValues) : NewWitnessVariable(HandleCS, f)
         /\ ~is_in_setup_mode(cs)
         /\ CountersMatch(cs)) =>
            /\ ~IsOk(last'.ret) => cs' = cs
            /\ CountersMatch(cs')
      ]_vars

\* C28: in mode Prove{construct_matrices: false}, once a constraint has been
\* enforced, is_satisfied() and which_is_unsatisfied() return a value: they
\* never index a_constraints, b_constraints or c_constraints past the end.
C28_ChecksComplete ==
    (cs.mode = Prove(FALSE) /\ cs.num_constraints >= 1) =>
        /\ ~IsPanic(which_is_unsatisfied(cs).ret)
        /\ ~IsPanic(is_satisfied(cs).ret)

\* C29: a clone is independent of the original: on either value
\* assigned_value(SymbolicLc(k)) is the fresh evaluation of that value's own
\* linear combination k on its own assignments, whatever new_lc, allocation
\* and assigned_value calls were made on the other.
C29_CloneIndependent ==
    copy # <<>> =>
        /\ \A k \in DOMAIN cs.lc_map :
              assigned_value(cs, SymbolicLc(k)).ret = FreshValue(cs, SymbolicLc(k))
        /\ \A k \in DOMAIN copy.lc_map :
              assigned_value(SharedCache(copy), SymbolicLc(k)).ret
                  = FreshValue(copy, SymbolicLc(k))

====
